---- MODULE Spec2Model ----
(***************************************************************************)
(* Data model of the ai-sdk "providers" crate (OpenAI responses API):      *)
(* the request-side unions (Item, Tool, ResponseFormat), their builders,   *)
(* the requests, their serde encodings, and the event stream.              *)
(*                                                                         *)
(* A behaviour is a caller's session: it holds one value at a time (val),  *)
(* builds it with the crate's constructors and setters, wraps/unwraps it   *)
(* into its union, serialises it (wire) and deserialises the document      *)
(* again (dec).  A fallible call that fails consumes the value (the Rust   *)
(* builders take self by value) and leaves its error in err; last is the   *)
(* call just made, <<name, argument>>.                                     *)
(*                                                                         *)
(* Rust values: a struct is a record, a unit enum value is its variant     *)
(* name, an enum value with a payload is <<variant name, payload>>.        *)
(*                                                                         *)
(* JSON documents (serde_json::Value): <<"str", s>>, <<"num", n>>,         *)
(* <<"bool", b>>, <<"arr", seq>>, <<"null">> and <<"obj", f>>, f a         *)
(* function from the keys the object has to their values.                  *)
(*                                                                         *)
(* Type descriptors, what #[derive(Serialize, Deserialize)] sees:          *)
(*   <<"String">> <<"bool">> <<"usize">> <<"f32">> <<"Value">>             *)
(*   <<"enum", [Variant |-> wire string]>>      unit-only enum             *)
(*   <<"Option", T>>  <<"Vec", T>>  <<"Map", T>>                           *)
(*   <<"struct", <<field, ...>>>>               fields made with Fld       *)
(*   <<"tagged", key, <<variant, ...>>>>        #[serde(tag = key)]        *)
(*   <<"untagged", <<variant, ...>>>>           #[serde(untagged)]         *)
(* where a variant is <<Rust name, wire tag, payload type>>.               *)
(***************************************************************************)
EXTENDS Integers, Sequences, FiniteSets, TLC

VARIABLES val, err, wire, dec, last

vars == <<val, err, wire, dec, last>>

\* Option<T>
None == <<"None">>
Some(x) == <<"Some", x>>

\* Result<T, E>
Ok(x) == <<"Ok", x>>
Err(e) == <<"Err", e>>

\* Result::unwrap: the value of an Ok, a panic with the error of an Err
Unwrap(r) == IF r[1] = "Ok" THEN r ELSE Err(<<"panic", r[2]>>)

\* no value held, no error raised, nothing encoded, nothing decoded
Nothing == <<"-", "-">>

\* A struct field: its Rust name, its wire key, its type, and its serde mode:
\*   "plain"      no attribute
\*   "skip_none"  #[serde(skip_serializing_if = "Option::is_none")]
\*   "skip"       #[serde(skip)]: never written, Default::default() on read
\*                (the field's type slot holds that default)
Fld(name, key, ty, mode) == [name |-> name, key |-> key, ty |-> ty, mode |-> mode]

RECURSIVE Ser(_, _), SerFields(_, _, _)

\* serde_json::to_value
Ser(T, v) ==
    CASE T[1] = "String" -> <<"str", v>>
      [] T[1] = "bool" -> <<"bool", v>>
      [] T[1] \in {"usize", "f32"} -> <<"num", v>>
      [] T[1] = "Value" -> v
      [] T[1] = "enum" -> <<"str", T[2][v]>>
      [] T[1] = "Option" -> IF v = None THEN <<"null">> ELSE Ser(T[2], v[2])
      [] T[1] = "Vec" -> <<"arr", [i \in 1..Len(v) |-> Ser(T[2], v[i])]>>
      [] T[1] = "Map" -> <<"obj", [k \in DOMAIN v |-> Ser(T[2], v[k])]>>
      [] T[1] = "struct" -> <<"obj", SerFields(T[2], v, 1)>>
      [] T[1] = "tagged" ->
            LET var == T[3][CHOOSE i \in 1..Len(T[3]) : T[3][i][1] = v[1]]
            IN  <<"obj", (T[2] :> <<"str", var[2]>>) @@ Ser(var[3], v[2])[2]>>
      [] T[1] = "untagged" ->
            LET var == T[2][CHOOSE i \in 1..Len(T[2]) : T[2][i][1] = v[1]]
            IN  Ser(var[3], v[2])

SerFields(fs, rec, i) ==
    IF i > Len(fs) THEN <<>>
    ELSE LET f == fs[i]
             rest == SerFields(fs, rec, i + 1)
         IN  IF f.mode = "skip" THEN rest
             ELSE IF f.mode = "skip_none" /\ rec[f.name] = None THEN rest
             ELSE (f.key :> Ser(f.ty, rec[f.name])) @@ rest

RECURSIVE De(_, _), DeFields(_, _, _), DeUntagged(_, _, _)

\* serde_json::from_value: unknown keys are ignored, a missing Option field
\* reads as None, any other missing field is an error.
De(T, j) ==
    CASE T[1] = "String" -> IF j[1] = "str" THEN Ok(j[2]) ELSE Err("decode")
      [] T[1] = "bool" -> IF j[1] = "bool" THEN Ok(j[2]) ELSE Err("decode")
      [] T[1] = "usize" ->
            IF j[1] = "num" /\ j[2] >= 0 THEN Ok(j[2]) ELSE Err("decode")
      [] T[1] = "f32" -> IF j[1] = "num" THEN Ok(j[2]) ELSE Err("decode")
      [] T[1] = "Value" -> Ok(j)
      [] T[1] = "enum" ->
            IF j[1] = "str" /\ \E n \in DOMAIN T[2] : T[2][n] = j[2]
            THEN Ok(CHOOSE n \in DOMAIN T[2] : T[2][n] = j[2])
            ELSE Err("decode")
      [] T[1] = "Option" ->
            IF j = <<"null">> THEN Ok(None)
            ELSE LET r == De(T[2], j)
                 IN  IF r[1] = "Ok" THEN Ok(Some(r[2])) ELSE r
      [] T[1] = "Vec" ->
            IF j[1] # "arr" THEN Err("decode")
            ELSE LET rs == [i \in 1..Len(j[2]) |-> De(T[2], j[2][i])]
                 IN  IF \A i \in 1..Len(j[2]) : rs[i][1] = "Ok"
                     THEN Ok([i \in 1..Len(j[2]) |-> rs[i][2]])
                     ELSE Err("decode")
      [] T[1] = "Map" ->
            IF j[1] # "obj" THEN Err("decode")
            ELSE LET rs == [k \in DOMAIN j[2] |-> De(T[2], j[2][k])]
                 IN  IF \A k \in DOMAIN j[2] : rs[k][1] = "Ok"
                     THEN Ok([k \in DOMAIN j[2] |-> rs[k][2]])
                     ELSE Err("decode")
      [] T[1] = "struct" ->
            IF j[1] = "obj" THEN DeFields(T[2], j[2], 1) ELSE Err("decode")
      [] T[1] = "tagged" ->
            IF /\ j[1] = "obj"
               /\ T[2] \in DOMAIN j[2]
               /\ j[2][T[2]][1] = "str"
               /\ \E i \in 1..Len(T[3]) : T[3][i][2] = j[2][T[2]][2]
            THEN LET var == T[3][CHOOSE i \in 1..Len(T[3]) :
                                    T[3][i][2] = j[2][T[2]][2]]
                     r == De(var[3], <<"obj", [k \in DOMAIN j[2] \ {T[2]} |-> j[2][k]]>>)
                 IN  IF r[1] = "Ok" THEN Ok(<<var[1], r[2]>>) ELSE r
            ELSE Err("decode")
      [] T[1] = "untagged" -> DeUntagged(T[2], j, 1)

DeFields(fs, doc, i) ==
    IF i > Len(fs) THEN Ok(<<>>)
    ELSE LET f == fs[i]
             r == IF f.mode = "skip" THEN Ok(f.ty)
                  ELSE IF f.key \in DOMAIN doc THEN De(f.ty, doc[f.key])
                  ELSE IF f.ty[1] = "Option" THEN Ok(None)
                  ELSE Err("decode")
             rest == DeFields(fs, doc, i + 1)
         IN  IF r[1] = "Ok" /\ rest[1] = "Ok"
             THEN Ok((f.name :> r[2]) @@ rest[2])
             ELSE Err("decode")

RECURSIVE DeUntagged_last_wins(_, _, _)

\* an untagged union where the last variant that deserialises wins
DeUntagged_last_wins(variants, j, i) ==
    IF i > Len(variants) THEN Err("decode")
    ELSE LET r == De(variants[i][3], j)
             rest == DeUntagged_last_wins(variants, j, i + 1)
         IN  IF rest[1] = "Ok" THEN rest
             ELSE IF r[1] = "Ok" THEN Ok(<<variants[i][1], r[2]>>)
             ELSE Err("decode")

\* #[serde(untagged)]: the variants are tried in declaration order and the
\* first that deserialises wins.
DeUntagged(variants, j, i) ==
    IF i > Len(variants) THEN Err("decode")
    ELSE LET r == De(variants[i][3], j)
         IN  IF r[1] = "Ok" THEN Ok(<<variants[i][1], r[2]>>)
             ELSE DeUntagged(variants, j, i + 1)

\* ConversionError (openai/errors.rs)
ConversionError_FromStr(s) == <<"ConversionError::FromStr", s>>
ConversionError_TryFrom(s) == <<"ConversionError::TryFrom", s>>

\* InputError (openai/errors.rs)
InputError(variant, payload) == <<"InputError", variant, payload>>

----------------------------------------------------------------------------
(* Items (request/input_models/item.rs and common/*_item.rs).              *)

\* Role, #[serde(rename_all = "lowercase")]
RoleT ==
    <<"enum", [User |-> "user", Assistant |-> "assistant",
               System |-> "system", Developer |-> "developer"]>>

Role_from_str(s) ==
    CASE s = "user" -> Ok("User")
      [] s = "assistant" -> Ok("Assistant")
      [] s = "system" -> Ok("System")
      [] s = "developer" -> Ok("Developer")
      [] OTHER -> Err(ConversionError_FromStr(s))

\* Status, #[serde(rename_all = "snake_case")]
StatusT ==
    <<"enum", [InProgress |-> "in_progress", Completed |-> "completed",
               Incomplete |-> "incomplete", Failed |-> "failed"]>>

\* #[serde(untagged)] enum Content over TextContent, ImageContent, FileContent
ContentT ==
    LET ContentTypeT ==
            <<"enum", [InputText |-> "input_text", InputImage |-> "input_image",
                       InputFile |-> "input_file"]>>
        ImageDetailT == <<"enum", [High |-> "high", Low |-> "low", Auto |-> "auto"]>>
        TextContentT ==
            <<"struct", <<Fld("type_field", "type", ContentTypeT, "plain"),
                          Fld("text", "text", <<"String">>, "plain")>>>>
        ImageContentT ==
            <<"struct",
              <<Fld("type_field", "type", ContentTypeT, "plain"),
                Fld("image_url", "image_url", <<"Option", <<"String">>>>, "skip_none"),
                Fld("file_id", "file_id", <<"Option", <<"String">>>>, "skip_none"),
                Fld("detail", "detail", ImageDetailT, "plain")>>>>
        FileContentT ==
            <<"struct",
              <<Fld("type_field", "type", ContentTypeT, "plain"),
                Fld("file_id", "file_id", <<"Option", <<"String">>>>, "skip_none"),
                Fld("file_data", "file_data", <<"Option", <<"String">>>>, "skip_none"),
                Fld("filename", "filename", <<"Option", <<"String">>>>, "skip_none")>>>>
    IN  <<"untagged", <<<<"Text", "", TextContentT>>,
                        <<"Image", "", ImageContentT>>,
                        <<"File", "", FileContentT>>>>>>

InputMessageItemT ==
    <<"struct", <<Fld("content", "content", <<"Vec", ContentT>>, "plain"),
                  Fld("role", "role", RoleT, "plain"),
                  Fld("status", "status", <<"Option", StatusT>>, "skip_none"),
                  Fld("type_field", "type", <<"Option", <<"String">>>>, "skip_none")>>>>

\* OutputMessageItem, with #[serde(tag = "type")] enums Annotation and
\* OutputContent
OutputMessageItemT ==
    LET CitationT ==
            <<"struct", <<Fld("file_id", "file_id", <<"String">>, "plain"),
                          Fld("index", "index", <<"usize">>, "plain")>>>>
        AnnotationT ==
            <<"tagged", "type",
              <<<<"FileCitation", "file_citation", CitationT>>,
                <<"UrlCitation", "url_citation",
                  <<"struct", <<Fld("end_index", "end_index", <<"usize">>, "plain"),
                                Fld("start_index", "start_index", <<"usize">>, "plain"),
                                Fld("title", "title", <<"String">>, "plain"),
                                Fld("url", "url", <<"String">>, "plain")>>>>>>,
                <<"FilePath", "file_path", CitationT>>>>>>
        OutputContentT ==
            <<"tagged", "type",
              <<<<"OutputText", "output_text",
                  <<"struct",
                    <<Fld("annotations", "annotations", <<"Vec", AnnotationT>>, "plain"),
                      Fld("text", "text", <<"String">>, "plain")>>>>>>,
                <<"Refusal", "refusal",
                  <<"struct", <<Fld("refusal", "refusal", <<"String">>, "plain")>>>>>>>>>>
    IN  <<"struct", <<Fld("content", "content", <<"Vec", OutputContentT>>, "plain"),
                      Fld("id", "id", <<"String">>, "plain"),
                      Fld("role", "role", RoleT, "plain"),
                      Fld("status", "status", StatusT, "plain")>>>>

\* FileSearchToolCallItem and its FileSearchToolCallResult
FileSearchToolCallItemT ==
    LET OptStringT == <<"Option", <<"String">>>>
        FileSearchToolCallResultT ==
            <<"struct",
              <<Fld("attributes", "attributes",
                    <<"Option", <<"Map", <<"String">>>>>>, "skip_none"),
                Fld("file_id", "file_id", OptStringT, "skip_none"),
                Fld("filename", "filename", OptStringT, "skip_none"),
                Fld("score", "score", <<"Option", <<"usize">>>>, "skip_none"),
                Fld("text", "text", OptStringT, "skip_none")>>>>
    IN  <<"struct",
          <<Fld("id", "id", <<"String">>, "plain"),
            Fld("queries", "queries", <<"Vec", <<"String">>>>, "plain"),
            Fld("status", "status", StatusT, "plain"),
            Fld("results", "results", <<"Vec", FileSearchToolCallResultT>>, "plain")>>>>

\* ComputerToolCallItem, with #[serde(tag = "type")] enum ComputerToolAction,
\* DragActionPath and PendingSafetyChecks
ComputerToolCallItemT ==
    LET X == Fld("x", "x", <<"usize">>, "plain")
        Y == Fld("y", "y", <<"usize">>, "plain")
        ComputerToolActionT ==
            <<"tagged", "type",
              <<<<"Click", "click",
                  <<"struct", <<Fld("button", "button", <<"String">>, "plain"), X, Y>>>>>>,
                <<"DoubleClick", "double_click", <<"struct", <<X, Y>>>>>>,
                <<"Drag", "drag",
                  <<"struct", <<Fld("path", "path",
                                    <<"Vec", <<"struct", <<X, Y>>>>>>, "plain")>>>>>>,
                <<"KeyPress", "keypress",
                  <<"struct", <<Fld("keys", "keys", <<"Vec", <<"String">>>>, "plain")>>>>>>,
                <<"Move", "move", <<"struct", <<X, Y>>>>>>,
                <<"Screenshot", "screenshot", <<"struct", <<>>>>>>,
                <<"Scroll", "scroll",
                  <<"struct", <<Fld("scroll_x", "scroll_x", <<"usize">>, "plain"),
                                Fld("scroll_y", "scroll_y", <<"usize">>, "plain"),
                                X, Y>>>>>>,
                <<"Type", "type",
                  <<"struct", <<Fld("text", "text", <<"String">>, "plain")>>>>>>,
                <<"Wait", "wait", <<"struct", <<>>>>>>>>>>
        PendingSafetyChecksT ==
            <<"struct", <<Fld("code", "code", <<"String">>, "plain"),
                          Fld("id", "id", <<"String">>, "plain"),
                          Fld("message", "message", <<"String">>, "plain")>>>>
    IN  <<"struct", <<Fld("action", "action", ComputerToolActionT, "plain"),
                      Fld("call_id", "call_id", <<"String">>, "plain"),
                      Fld("id", "id", <<"String">>, "plain"),
                      Fld("pending_safety_checks", "pending_safety_checks",
                          <<"Vec", PendingSafetyChecksT>>, "plain"),
                      Fld("status", "status", StatusT, "plain")>>>>

\* ComputerToolCallOutputItem, with ComputerToolCallOutputItemOutput and
\* AcknowledgedSafetyChecks
ComputerToolCallOutputItemT ==
    LET OptStringT == <<"Option", <<"String">>>>
        ComputerToolCallOutputItemOutputT ==
            <<"struct", <<Fld("type_field", "type", <<"String">>, "plain"),
                          Fld("file_id", "file_id", OptStringT, "skip_none"),
                          Fld("image_url", "image_url", OptStringT, "skip_none")>>>>
        AcknowledgedSafetyChecksT ==
            <<"struct", <<Fld("id", "id", <<"String">>, "plain"),
                          Fld("code", "code", OptStringT, "skip_none"),
                          Fld("message", "message", OptStringT, "skip_none")>>>>
    IN  <<"struct",
          <<Fld("call_id", "call_id", <<"String">>, "plain"),
            Fld("output", "output", ComputerToolCallOutputItemOutputT, "plain"),
            Fld("type_field", "type", <<"String">>, "plain"),
            Fld("acknowledged_safety_checks", "acknowledged_safety_checks",
                <<"Option", <<"Vec", AcknowledgedSafetyChecksT>>>>, "plain"),
            Fld("id", "id", OptStringT, "skip_none"),
            Fld("status", "status", <<"Option", StatusT>>, "skip_none")>>>>

WebSearchToolCallItemT ==
    <<"struct", <<Fld("id", "id", <<"String">>, "plain"),
                  Fld("status", "status", <<"String">>, "plain")>>>>

FunctionToolCallItemT ==
    <<"struct", <<Fld("arguments", "arguments", <<"String">>, "plain"),
                  Fld("call_id", "call_id", <<"String">>, "plain"),
                  Fld("name", "name", <<"String">>, "plain"),
                  Fld("id", "id", <<"Option", <<"String">>>>, "skip_none"),
                  Fld("status", "status", <<"Option", StatusT>>, "skip_none")>>>>

FunctionToolCallOutputItemT ==
    <<"struct", <<Fld("call_id", "call_id", <<"String">>, "plain"),
                  Fld("output", "output", <<"String">>, "plain"),
                  Fld("type_field", "type", <<"String">>, "plain"),
                  Fld("id", "id", <<"Option", <<"String">>>>, "skip_none"),
                  Fld("status", "status", <<"Option", StatusT>>, "skip_none")>>>>

\* ReasoningItem, with #[serde(tag = "type")] enum ReasoningItemSummary
ReasoningItemT ==
    LET ReasoningItemSummaryT ==
            <<"tagged", "type",
              <<<<"SummaryText", "summary_text",
                  <<"struct", <<Fld("text", "text", <<"String">>, "plain")>>>>>>>>>>
    IN  <<"struct",
          <<Fld("id", "id", <<"String">>, "plain"),
            Fld("summary", "summary", <<"Vec", ReasoningItemSummaryT>>, "plain"),
            Fld("encrypted_content", "encrypted_content",
                <<"Option", <<"String">>>>, "skip_none"),
            Fld("status", "status", <<"Option", StatusT>>, "skip_none")>>>>

\* #[serde(untagged)] enum Item
ItemT ==
    <<"untagged",
      <<<<"InputMessage", "", InputMessageItemT>>,
        <<"OutputMessage", "", OutputMessageItemT>>,
        <<"FileSearchToolCall", "", FileSearchToolCallItemT>>,
        <<"ComputerToolCall", "", ComputerToolCallItemT>>,
        <<"ComputerToolCallOutput", "", ComputerToolCallOutputItemT>>,
        <<"WebSearchToolCall", "", WebSearchToolCallItemT>>,
        <<"FunctionToolCall", "", FunctionToolCallItemT>>,
        <<"FunctionToolCallOutput", "", FunctionToolCallOutputItemT>>,
        <<"Reasoning", "", ReasoningItemT>>>>>>

\* impl From<X> for Item, one per concrete item type X: the variant X wraps into
Item_from(v) ==
    <<[InputMessageItem |-> "InputMessage",
       OutputMessageItem |-> "OutputMessage",
       FileSearchToolCallItem |-> "FileSearchToolCall",
       ComputerToolCallItem |-> "ComputerToolCall",
       ComputerToolCallOutputItem |-> "ComputerToolCallOutput",
       WebSearchToolCallItem |-> "WebSearchToolCall",
       FunctionToolCallItem |-> "FunctionToolCall",
       FunctionToolCallOutputItem |-> "FunctionToolCallOutput",
       ReasoningItem |-> "Reasoning"][v[1]], v[2]>>

----------------------------------------------------------------------------
(* The session's steps on items.                                           *)

\* longest content, summary, query, result and safety-check list handed in
MaxList == 1

\* Vec<T> values of at most n elements drawn from S
SeqsUpTo(S, n) == UNION {[1..k -> S] : k \in 0..n}

\* an infallible call returned v of type ty
Built(ty, v) ==
    /\ val' = <<ty, v>>
    /\ err' = Nothing
    /\ wire' = Nothing
    /\ dec' = Nothing

\* a call returned the Result r; an Err leaves no value (self was moved in)
Tried(ty, r) ==
    /\ val' = IF r[1] = "Ok" THEN <<ty, r[2]>> ELSE Nothing
    /\ err' = IF r[1] = "Ok" THEN Nothing ELSE r[2]
    /\ wire' = Nothing
    /\ dec' = Nothing

\* InputMessageItem::new, #[derive(Default)]
NewInputMessageItem ==
    /\ Built("InputMessageItem",
             [content |-> <<>>, role |-> "User", status |-> None, type_field |-> None])
    /\ last' = <<"InputMessageItem::new", "-">>

\* role() without its assistant guard
InputMessageItem_role_unguarded(self, role) ==
    LET r == Role_from_str(role)
    IN  IF r[1] = "Ok" THEN Ok([self EXCEPT !.role = r[2]])
        ELSE Err(InputError("ConversionError", r[2]))

\* role() whose guard compares with the variant name instead of the wire string
InputMessageItem_role_miscased(self, role) ==
    IF role = "Assistant"
    THEN Err(InputError("InvalidRole", "assistant"))
    ELSE LET r == Role_from_str(role)
         IN  IF r[1] = "Ok" THEN Ok([self EXCEPT !.role = r[2]])
             ELSE Err(InputError("ConversionError", r[2]))

InputMessageItem_role(self, role) ==
    IF role = "assistant"
    THEN Err(InputError("InvalidRole", "assistant"))
    ELSE LET r == Role_from_str(role)
         IN  IF r[1] = "Ok" THEN Ok([self EXCEPT !.role = r[2]])
             ELSE Err(InputError("ConversionError", r[2]))

SetRole ==
    /\ val[1] = "InputMessageItem"
    /\ \E r \in {"user", "assistant", "system", "developer", "admin", "Assistant", ""} :
          /\ Tried("InputMessageItem", InputMessageItem_role(val[2], r))
          /\ last' = <<"InputMessageItem::role", r>>

InsertType ==
    /\ val[1] = "InputMessageItem"
    /\ Built("InputMessageItem", [val[2] EXCEPT !.type_field = Some("message")])
    /\ last' = <<"InputMessageItem::insert_type", "-">>

\* OutputMessageItem::new over contents made with OutputContent::output_text,
\* OutputContent::refusal and Annotation::file_citation
NewOutputMessageItem ==
    \E content \in SeqsUpTo(
           {<<"OutputText", [annotations |-> <<>>, text |-> "text-1"]>>,
            <<"OutputText",
              [annotations |-> <<<<"FileCitation", [file_id |-> "file-1", index |-> 0]>>>>,
               text |-> "text-1"]>>,
            <<"Refusal", [refusal |-> "text-1"]>>}, MaxList),
       status \in DOMAIN StatusT[2] :
        /\ Built("OutputMessageItem",
                 [content |-> content, id |-> "id-1", role |-> "Assistant",
                  status |-> status])
        /\ last' = <<"OutputMessageItem::new", "-">>

\* FileSearchToolCallItem::new over results made with
\* FileSearchToolCallResult::new and ::file_id
NewFileSearchToolCallItem ==
    \E queries \in SeqsUpTo({"text-1"}, MaxList), status \in DOMAIN StatusT[2],
       results \in SeqsUpTo(
           {[attributes |-> None, file_id |-> f, filename |-> None,
             score |-> None, text |-> None] : f \in {None, Some("file-1")}}, MaxList) :
        /\ Built("FileSearchToolCallItem",
                 [id |-> "id-1", queries |-> queries, status |-> status,
                  results |-> results])
        /\ last' = <<"FileSearchToolCallItem::new", "-">>

\* a click that takes any button
ComputerToolAction_click_unchecked(button, x, y) ==
    Ok(<<"Click", [button |-> button, x |-> x, y |-> y]>>)

\* ComputerToolAction::click: Click{button, x, y} when BUTTON contains button
ComputerToolAction_click(button, x, y) ==
    IF button \in {"left", "right", "wheel", "back", "forward"}
    THEN Ok(<<"Click", [button |-> button, x |-> x, y |-> y]>>)
    ELSE Err(InputError("InvalidButtonForClickAction", button))

Click ==
    \E button \in {"left", "right", "wheel", "back", "forward",
                    "middle", "Left", "double", ""},
       x \in {0, 7}, y \in {3} :
        /\ Tried("ComputerToolAction", ComputerToolAction_click(button, x, y))
        /\ last' = <<"ComputerToolAction::click", <<button, x, y>>>>

\* ComputerToolCallItem::new over actions made with
\* ComputerToolAction::double_click, ::screenshot and ::type_action
NewComputerToolCallItem ==
    \E action \in {<<"DoubleClick", [x |-> 1, y |-> 2]>>, <<"Screenshot", <<>>>>,
                   <<"Type", [text |-> "text-1"]>>},
       status \in DOMAIN StatusT[2],
       pending_safety_checks \in SeqsUpTo(
           {[code |-> "code-1", id |-> "id-1", message |-> "text-1"]}, MaxList) :
        /\ Built("ComputerToolCallItem",
                 [action |-> action, call_id |-> "call-1", id |-> "id-1",
                  pending_safety_checks |-> pending_safety_checks,
                  status |-> status])
        /\ last' = <<"ComputerToolCallItem::new", "-">>

\* ComputerToolCallOutputItem::new over outputs made with
\* ComputerToolCallOutputItemOutput::new and ::file_id
NewComputerToolCallOutputItem ==
    \E file_id \in {None, Some("file-1")} :
        /\ Built("ComputerToolCallOutputItem",
                 [call_id |-> "call-1",
                  output |-> [type_field |-> "computer_screenshot",
                              file_id |-> file_id, image_url |-> None],
                  type_field |-> "computer_call_output",
                  acknowledged_safety_checks |-> None, id |-> None, status |-> None])
        /\ last' = <<"ComputerToolCallOutputItem::new", "-">>

\* ComputerToolCallOutputItem::acknowledged_safety_checks over checks made
\* with AcknowledgedSafetyChecks::new
SetAcknowledgedSafetyChecks ==
    /\ val[1] = "ComputerToolCallOutputItem"
    /\ \E value \in SeqsUpTo({[id |-> "id-1", code |-> None, message |-> None]},
                             MaxList) :
          /\ Built(val[1], [val[2] EXCEPT !.acknowledged_safety_checks = Some(value)])
          /\ last' = <<"ComputerToolCallOutputItem::acknowledged_safety_checks", "-">>

NewWebSearchToolCallItem ==
    \E status \in {"completed", "searching"} :
        /\ Built("WebSearchToolCallItem", [id |-> "id-1", status |-> status])
        /\ last' = <<"WebSearchToolCallItem::new", "-">>

NewFunctionToolCallItem ==
    /\ Built("FunctionToolCallItem",
             [arguments |-> "text-1", call_id |-> "call-1", name |-> "name-1",
              id |-> None, status |-> None])
    /\ last' = <<"FunctionToolCallItem::new", "-">>

NewFunctionToolCallOutputItem ==
    /\ Built("FunctionToolCallOutputItem",
             [call_id |-> "call-1", output |-> "text-1",
              type_field |-> "function_call_output", id |-> None, status |-> None])
    /\ last' = <<"FunctionToolCallOutputItem::new", "-">>

\* ReasoningItem::new over summaries made with ReasoningItemSummary::new
NewReasoningItem ==
    \E summary \in SeqsUpTo({<<"SummaryText", [text |-> "text-1"]>>}, MaxList) :
        /\ Built("ReasoningItem",
                 [id |-> "id-1", summary |-> summary, encrypted_content |-> None,
                  status |-> None])
        /\ last' = <<"ReasoningItem::new", "-">>

SetEncryptedContent ==
    /\ val[1] = "ReasoningItem"
    /\ Built(val[1], [val[2] EXCEPT !.encrypted_content = Some("text-1")])
    /\ last' = <<"ReasoningItem::encrypted_content", "-">>

\* the id(value) setter of ComputerToolCallOutputItem, FunctionToolCallItem
\* and FunctionToolCallOutputItem
SetItemId ==
    /\ val[1] \in {"ComputerToolCallOutputItem", "FunctionToolCallItem",
                   "FunctionToolCallOutputItem"}
    /\ Built(val[1], [val[2] EXCEPT !.id = Some("id-1")])
    /\ last' = <<"id", "-">>

\* the status(value) setter of ComputerToolCallOutputItem, FunctionToolCallItem,
\* FunctionToolCallOutputItem and ReasoningItem
SetItemStatus ==
    /\ val[1] \in {"ComputerToolCallOutputItem", "FunctionToolCallItem",
                   "FunctionToolCallOutputItem", "ReasoningItem"}
    /\ \E value \in DOMAIN StatusT[2] :
          /\ Built(val[1], [val[2] EXCEPT !.status = Some(value)])
          /\ last' = <<"status", "-">>

\* let item: Item = x.into();
WrapItem ==
    /\ val[1] \in {"InputMessageItem", "OutputMessageItem", "FileSearchToolCallItem",
                   "ComputerToolCallItem", "ComputerToolCallOutputItem",
                   "WebSearchToolCallItem", "FunctionToolCallItem",
                   "FunctionToolCallOutputItem", "ReasoningItem"}
    /\ Built("Item", Item_from(val))
    /\ last' = <<"Item::from", "-">>

----------------------------------------------------------------------------
(* Contents (request/input_models/common.rs).                              *)

\* TextContent::new, Default: type_field InputText, text empty
NewTextContent ==
    /\ Built("TextContent", [type_field |-> "InputText", text |-> ""])
    /\ last' = <<"TextContent", "new", "-">>

\* TextContent::text
SetContentText ==
    \E value \in {"Hello", ""} :
        /\ val[1] = "TextContent"
        /\ Built("TextContent", [val[2] EXCEPT !.text = value])
        /\ last' = <<"TextContent", "text", value>>

\* ImageContent::new, Default: type_field InputImage, detail Auto
NewImageContent ==
    /\ Built("ImageContent", [type_field |-> "InputImage", image_url |-> None,
                              file_id |-> None, detail |-> "Auto"])
    /\ last' = <<"ImageContent", "new", "-">>

\* ImageContent::image_url
SetImageUrl ==
    \E value \in {"https://example.com/a.png"} :
        /\ val[1] = "ImageContent"
        /\ Built("ImageContent", [val[2] EXCEPT !.image_url = Some(value)])
        /\ last' = <<"ImageContent", "image_url", value>>

\* ImageContent::file_id
SetImageFileId ==
    \E value \in {"file-1", "file-2"} :
        /\ val[1] = "ImageContent"
        /\ Built("ImageContent", [val[2] EXCEPT !.file_id = Some(value)])
        /\ last' = <<"ImageContent", "file_id", value>>

\* a detail(value) that keeps the detail it has when value is no ImageDetail
ImageContent_detail_lenient(self, value) ==
    CASE value = "high" -> Ok([self EXCEPT !.detail = "High"])
      [] value = "low" -> Ok([self EXCEPT !.detail = "Low"])
      [] value = "auto" -> Ok([self EXCEPT !.detail = "Auto"])
      [] OTHER -> Ok(self)

\* ImageContent::detail: self.detail = ImageDetail::from_str(value)?; Ok(self)
ImageContent_detail(self, value) ==
    CASE value = "high" -> Ok([self EXCEPT !.detail = "High"])
      [] value = "low" -> Ok([self EXCEPT !.detail = "Low"])
      [] value = "auto" -> Ok([self EXCEPT !.detail = "Auto"])
      [] OTHER -> Err(ConversionError_FromStr(value))

SetDetail ==
    \E value \in {"high", "low", "auto", "High", "medium", ""} :
        /\ val[1] = "ImageContent"
        /\ Tried("ImageContent", ImageContent_detail(val[2], value))
        /\ last' = <<"ImageContent", "detail", value>>

\* FileContent::new, Default: type_field InputFile
NewFileContent ==
    /\ Built("FileContent", [type_field |-> "InputFile", file_id |-> None,
                             file_data |-> None, filename |-> None])
    /\ last' = <<"FileContent", "new", "-">>

\* FileContent::file_id
SetFileId ==
    \E value \in {"file-1", "file-2"} :
        /\ val[1] = "FileContent"
        /\ Built("FileContent", [val[2] EXCEPT !.file_id = Some(value)])
        /\ last' = <<"FileContent", "file_id", value>>

\* FileContent::file_data
SetFileData ==
    \E value \in {"aGk="} :
        /\ val[1] = "FileContent"
        /\ Built("FileContent", [val[2] EXCEPT !.file_data = Some(value)])
        /\ last' = <<"FileContent", "file_data", value>>

\* FileContent::filename
SetFilename ==
    \E value \in {"a.pdf"} :
        /\ val[1] = "FileContent"
        /\ Built("FileContent", [val[2] EXCEPT !.filename = Some(value)])
        /\ last' = <<"FileContent", "filename", value>>

\* impl From<TextContent>, From<ImageContent>, From<FileContent> for Content
WrapContent ==
    /\ val[1] \in {"TextContent", "ImageContent", "FileContent"}
    /\ Built("Content",
             <<[TextContent |-> "Text", ImageContent |-> "Image",
                FileContent |-> "File"][val[1]], val[2]>>)
    /\ last' = <<"Content::from", val[1]>>

----------------------------------------------------------------------------
(* The input builder (input_builder.rs).  Its Input is Text(&str),         *)
(* SingleContent{role, content: &str} or MultiContent{role, content:       *)
(* Vec<Content>}.                                                          *)

\* a multi-content input holds at most this many contents
MaxContents == 3

\* Input::build_text_input
BuildTextInput ==
    \E content \in {"simple text", ""} :
        /\ Built("Input", <<"Text", content>>)
        /\ last' = <<"Input::build_text_input", content>>

\* Input::build_single_content_input, SingleContentInput::build
BuildSingleContentInput ==
    \E role \in {"User", "System"}, content \in {"simple text"} :
        /\ Built("Input", <<"SingleContent", [role |-> role, content |-> content]>>)
        /\ last' = <<"Input::build_single_content_input", <<role, content>>>>

\* Input::build_multi_content_input, MultiContentInput::build: one Content
\* per ContentPayload, in order
BuildMultiContentInput ==
    LET content(p) ==
            CASE p[1] = "Text" ->
                    <<"Text", [type_field |-> "InputText", text |-> p[2]]>>
              [] p[1] = "Image" ->
                    <<"Image", [type_field |-> "InputImage", image_url |-> p[2]]>>
              [] p[1] = "FileWithFileId" ->
                    <<"FileWithFileId", [type_field |-> "InputFile", file_id |-> p[2]]>>
              [] p[1] = "FileWithBase64" ->
                    <<"FileWithBase64", [type_field |-> "InputFile", filename |-> p[2],
                                         file_data |-> p[3]]>>
    IN  \E role \in {"User", "System"},
           payload \in SeqsUpTo({<<"Text", "initial text">>,
                                 <<"Image", "http://image.url">>,
                                 <<"FileWithFileId", "file-1">>,
                                 <<"FileWithBase64", "a.pdf", "aGk=">>}, 1) :
            /\ Built("Input",
                     <<"MultiContent",
                       [role |-> role,
                        content |-> [i \in 1..Len(payload) |-> content(payload[i])]]>>)
            /\ last' = <<"Input::build_multi_content_input", <<role, payload>>>>

\* an append_content that puts the content first
Input_append_content_first(self, content_to_add) ==
    IF self[1] = "MultiContent"
    THEN [self |-> <<"MultiContent",
                     [self[2] EXCEPT !.content = <<content_to_add>> \o @]>>,
          result |-> Ok(<<>>)]
    ELSE [self |-> self, result |-> Err(<<"ContentError::UnableToAppend">>)]

\* Input::append_content(&mut self, content_to_add): what self is after the
\* call, and the Result returned.  MultiContentInput::append_content pushes.
Input_append_content(self, content_to_add) ==
    IF self[1] = "MultiContent"
    THEN [self |-> <<"MultiContent",
                     [self[2] EXCEPT !.content = Append(@, content_to_add)]>>,
          result |-> Ok(<<>>)]
    ELSE [self |-> self, result |-> Err(<<"ContentError::UnableToAppend">>)]

\* input.append_content(content_to_add); the input stays with the caller
AppendContent ==
    \E content_to_add \in
           {<<"Text", [type_field |-> "InputText", text |-> "additional text"]>>,
            <<"Image", [type_field |-> "InputImage",
                        image_url |-> "http://new.image.url"]>>,
            <<"FileWithFileId", [type_field |-> "InputFile", file_id |-> "file-2"]>>} :
        /\ val[1] = "Input"
        /\ val[2][1] = "MultiContent" => Len(val[2][2].content) < MaxContents
        /\ LET r == Input_append_content(val[2], content_to_add)
           IN  /\ val' = <<"Input", r.self>>
               /\ err' = IF r.result[1] = "Ok" THEN Nothing ELSE r.result[2]
        /\ wire' = Nothing
        /\ dec' = Nothing
        /\ last' = <<"Input::append_content", content_to_add>>

----------------------------------------------------------------------------
(* Tools (common/tool.rs, common/tool_choice.rs, constants.rs).            *)

ComparisonOperator_from_str(s) ==
    CASE s = "eq" -> Ok("Eq")
      [] s = "ne" -> Ok("Ne")
      [] s = "gt" -> Ok("Gt")
      [] s = "gte" -> Ok("Gte")
      [] s = "lt" -> Ok("Lt")
      [] s = "lte" -> Ok("Lte")
      [] OTHER -> Err(ConversionError_FromStr(s))

\* FileSearchTool, with RankingOptions and the #[serde(untagged)] enums
\* FilterValue and FileSearchFilter (a tree, unfolded here to compounds of
\* comparisons)
FileSearchToolT ==
    LET ComparisonOperatorT ==
            <<"enum", [Eq |-> "eq", Ne |-> "ne", Gt |-> "gt", Gte |-> "gte",
                       Lt |-> "lt", Lte |-> "lte"]>>
        FilterValueT ==
            <<"untagged", <<<<"String", "", <<"String">>>>,
                            <<"Boolean", "", <<"bool">>>>,
                            <<"Number", "", <<"f32">>>>>>>>
        ComparisonT ==
            <<"struct", <<Fld("key", "key", <<"String">>, "plain"),
                          Fld("type_field", "type", ComparisonOperatorT, "plain"),
                          Fld("value", "value", FilterValueT, "plain")>>>>
        CompoundT ==
            <<"struct",
              <<Fld("filters", "filters",
                    <<"Vec", <<"untagged", <<<<"Comparison", "", ComparisonT>>>>>>>>,
                    "plain"),
                Fld("type_field", "type",
                    <<"enum", [And |-> "and", Or |-> "or"]>>, "plain")>>>>
        FileSearchFilterT ==
            <<"untagged", <<<<"Comparison", "", ComparisonT>>,
                            <<"Compound", "", CompoundT>>>>>>
        RankingOptionsT ==
            <<"struct",
              <<Fld("ranker", "ranker", <<"Option", <<"String">>>>, "skip_none"),
                Fld("score_threshold", "score_threshold",
                    <<"Option", <<"f32">>>>, "skip_none")>>>>
    IN  <<"struct",
          <<Fld("vector_store_ids", "vector_store_ids",
                <<"Vec", <<"String">>>>, "plain"),
            Fld("filters", "filters", <<"Option", FileSearchFilterT>>, "skip_none"),
            Fld("max_num_results", "max_num_results",
                <<"Option", <<"usize">>>>, "skip_none"),
            Fld("ranking_options", "ranking_options",
                <<"Option", RankingOptionsT>>, "skip_none")>>>>

FunctionToolT ==
    <<"struct",
      <<Fld("name", "name", <<"String">>, "plain"),
        Fld("parameters", "parameters", <<"Value">>, "plain"),
        Fld("strict", "strict", <<"bool">>, "plain"),
        Fld("description", "description", <<"Option", <<"String">>>>, "skip_none")>>>>

ComputerUseToolT ==
    <<"struct", <<Fld("display_height", "display_height", <<"f32">>, "plain"),
                  Fld("display_width", "display_width", <<"f32">>, "plain"),
                  Fld("environment", "environment", <<"String">>, "plain")>>>>

\* WebSearchTool, with SearchContextSize and UserLocation; variant is
\* #[serde(skip)] and WebSearchVariant::default() is Preview
WebSearchToolT ==
    LET OptStringT == <<"Option", <<"String">>>>
        SearchContextSizeT ==
            <<"enum", [Low |-> "low", Medium |-> "medium", High |-> "high"]>>
        UserLocationT ==
            <<"struct", <<Fld("type_field", "type", <<"String">>, "plain"),
                          Fld("city", "city", OptStringT, "skip_none"),
                          Fld("country", "country", OptStringT, "skip_none"),
                          Fld("region", "region", OptStringT, "skip_none"),
                          Fld("timezone", "timezone", OptStringT, "skip_none")>>>>
    IN  <<"struct",
          <<Fld("variant", "variant", "Preview", "skip"),
            Fld("search_context_size", "search_context_size",
                <<"Option", SearchContextSizeT>>, "skip_none"),
            Fld("user_location", "user_location",
                <<"Option", UserLocationT>>, "skip_none")>>>>

\* MCPTool, with the #[serde(untagged)] enums AllowedTools and RequireApproval
MCPToolT ==
    LET ToolNamesT == <<"Map", <<"Vec", <<"String">>>>>>
        AllowedToolsT ==
            <<"untagged", <<<<"MCPAllowedTools", "", <<"Vec", <<"String">>>>>>,
                            <<"MCPAllowedToolsFilter", "", ToolNamesT>>>>>>
        RequireApprovalT ==
            <<"untagged",
              <<<<"MCPToolApprovalFilter", "",
                  <<"struct",
                    <<Fld("always", "always", <<"Option", ToolNamesT>>, "skip_none"),
                      Fld("never", "never", <<"Option", ToolNamesT>>, "skip_none")>>>>>>,
                <<"MCPToolApprovalSetting", "",
                  <<"enum", [Always |-> "always", Never |-> "never"]>>>>>>>>
    IN  <<"struct",
          <<Fld("server_label", "server_label", <<"String">>, "plain"),
            Fld("server_url", "server_url", <<"String">>, "plain"),
            Fld("allowed_tools", "allowed_tools",
                <<"Option", AllowedToolsT>>, "skip_none"),
            Fld("headers", "headers",
                <<"Option", <<"Map", <<"String">>>>>>, "skip_none"),
            Fld("require_approval", "require_approval",
                <<"Option", RequireApprovalT>>, "skip_none")>>>>

\* CodeInterpreterTool, with #[serde(untagged)] enum CodeInterpreterContainer
CodeInterpreterToolT ==
    LET CodeInterpreterContainerT ==
            <<"untagged",
              <<<<"ID", "", <<"String">>>>,
                <<"IDS", "",
                  <<"struct",
                    <<Fld("type_field", "type", <<"String">>, "plain"),
                      Fld("file_ids", "file_ids",
                          <<"Option", <<"Vec", <<"String">>>>>>, "skip_none")>>>>>>>>>>
    IN  <<"struct", <<Fld("container", "container", CodeInterpreterContainerT, "plain")>>>>

\* impl FromStr for OpenAIModelId, the rows of the models the session names
\* (the match has one such row per variant)
OpenAIModelId_from_str(s) ==
    CASE s = "gpt-4" -> Ok("Gpt4")
      [] s = "gpt-4o" -> Ok("Gpt4O")
      [] s = "gpt-3.5-turbo" -> Ok("Gpt3_5Turbo")
      [] s = "gpt-image-1" -> Ok("GptImage1")
      [] s = "codex-mini-latest" -> Ok("CodexMiniLatest")
      [] OTHER -> Err(InputError("InvalidModelId", s))

\* OpenAIModelId, #[serde(into = "String")]: written with as_str, the rows of
\* the models the session names
OpenAIModelIdT ==
    <<"enum", [Gpt4 |-> "gpt-4", Gpt4O |-> "gpt-4o",
               Gpt3_5Turbo |-> "gpt-3.5-turbo", GptImage1 |-> "gpt-image-1",
               CodexMiniLatest |-> "codex-mini-latest"]>>

\* ImageGenerationBackground, #[serde(rename_all = "lowercase")]
ImageGenerationBackgroundT ==
    <<"enum", [Transparent |-> "transparent", Opaque |-> "opaque", Auto |-> "auto"]>>

\* impl FromStr for ImageGenerationBackground: the error names the tool
ImageGenerationBackground_from_str(s) ==
    CASE s = "transparent" -> Ok("Transparent")
      [] s = "opaque" -> Ok("Opaque")
      [] s = "auto" -> Ok("Auto")
      [] OTHER -> Err(ConversionError_TryFrom("ImageGenerationTool"))

\* ImageGenerationOutputFormat, #[serde(rename_all = "lowercase")]
ImageGenerationOutputFormatT ==
    <<"enum", [PNG |-> "png", WEBP |-> "webp", JPEG |-> "jpeg"]>>

\* str::to_lowercase, on the strings the session parses
to_lowercase(s) ==
    LET upper == [PNG |-> "png", Jpeg |-> "jpeg", User |-> "user",
                  Auto |-> "auto", FileSearch |-> "filesearch"]
    IN  IF s \in DOMAIN upper THEN upper[s] ELSE s

\* impl FromStr for ImageGenerationOutputFormat: matches s.to_lowercase(),
\* the error names the enumeration
ImageGenerationOutputFormat_from_str(s) ==
    LET l == to_lowercase(s)
    IN  CASE l = "png" -> Ok("PNG")
          [] l = "webp" -> Ok("WEBP")
          [] l = "jpeg" -> Ok("JPEG")
          [] OTHER -> Err(ConversionError_TryFrom("ImageGenerationOutputFormat"))

\* ImageGenerationTool, with its remaining enumerations and InputImageMask
ImageGenerationToolT ==
    LET OptStringT == <<"Option", <<"String">>>>
        InputImageMaskT ==
            <<"struct", <<Fld("file_id", "file_id", OptStringT, "skip_none"),
                          Fld("image_url", "image_url", OptStringT, "skip_none")>>>>
        ImageGenerationQualityT ==
            <<"enum", [Low |-> "low", Medium |-> "medium", High |-> "high",
                       Auto |-> "auto"]>>
        ImageGenerationSizeT ==
            <<"enum", [Size1024x1024 |-> "1024x1024", Size1024x1536 |-> "1024x1536",
                       Size1536x1024 |-> "1536x1024", Auto |-> "auto"]>>
    IN  <<"struct",
          <<Fld("background", "background",
                <<"Option", ImageGenerationBackgroundT>>, "skip_none"),
            Fld("input_image_mask", "input_image_mask",
                <<"Option", InputImageMaskT>>, "skip_none"),
            Fld("model", "model", <<"Option", OpenAIModelIdT>>, "skip_none"),
            Fld("moderation", "moderation", OptStringT, "skip_none"),
            Fld("output_compression", "output_compression",
                <<"Option", <<"usize">>>>, "skip_none"),
            Fld("output_format", "output_format",
                <<"Option", ImageGenerationOutputFormatT>>, "skip_none"),
            Fld("partial_image", "partial_image",
                <<"Option", <<"usize">>>>, "skip_none"),
            Fld("quality", "quality", <<"Option", ImageGenerationQualityT>>, "skip_none"),
            Fld("size", "size", <<"Option", ImageGenerationSizeT>>, "skip_none")>>>>

\* #[serde(tag = "type")] enum Tool: variant, wire tag, payload type
ToolT ==
    <<"tagged", "type",
      <<<<"WebSearch", "web_search_preview", WebSearchToolT>>,
        <<"WebSearchPreview2025_03_11", "web_search_preview_2025_03_11", WebSearchToolT>>,
        <<"FileSearch", "file_search", FileSearchToolT>>,
        <<"Function", "function", FunctionToolT>>,
        <<"ComputerUse", "computer_use_preview", ComputerUseToolT>>,
        <<"MCP", "mcp", MCPToolT>>,
        <<"CodeInterpreter", "code_interpreter", CodeInterpreterToolT>>,
        <<"ImageGeneration", "image_generation", ImageGenerationToolT>>,
        <<"LocalShell", "local_shell", <<"struct", <<>>>>>>>>>>

\* the payload type each Tool variant is declared with
ToolPayloadType ==
    [WebSearch |-> "WebSearchTool", WebSearchPreview2025_03_11 |-> "WebSearchTool",
     FileSearch |-> "FileSearchTool", Function |-> "FunctionTool",
     ComputerUse |-> "ComputerUseTool", MCP |-> "MCPTool",
     CodeInterpreter |-> "CodeInterpreterTool",
     ImageGeneration |-> "ImageGenerationTool", LocalShell |-> "-"]

\* impl From<X> for Tool, one per concrete tool type X
Tool_from(v) ==
    CASE v[1] = "FileSearchTool" -> <<"FileSearch", v[2]>>
      [] v[1] = "FunctionTool" -> <<"Function", v[2]>>
      [] v[1] = "ComputerUseTool" -> <<"ComputerUse", v[2]>>
      [] v[1] = "WebSearchTool" ->
            IF v[2].variant = "Preview" THEN <<"WebSearch", v[2]>>
            ELSE <<"WebSearchPreview2025_03_11", v[2]>>
      [] v[1] = "MCPTool" -> <<"MCP", v[2]>>
      [] v[1] = "CodeInterpreterTool" -> <<"CodeInterpreter", v[2]>>
      [] v[1] = "ImageGenerationTool" -> <<"ImageGeneration", v[2]>>

\* the match arms of impl TryFrom<Tool> for T: the variants T unwraps
ToolArms ==
    [FileSearchTool |-> {"FileSearch"},
     FunctionTool |-> {"Function"},
     ComputerUseTool |-> {"ComputerUse"},
     WebSearchTool |-> {"WebSearch", "WebSearchPreview2025_03_11"},
     MCPTool |-> {"MCP"},
     CodeInterpreterTool |-> {"CodeInterpreter"},
     ImageGenerationTool |-> {"ImageGeneration"}]

\* TryFrom<Tool> for WebSearchTool with the arm of the dated variant missing
Tool_try_from_one_arm(T, tool) ==
    IF tool[1] \in (ToolArms[T] \ {"WebSearchPreview2025_03_11"}) THEN Ok(tool[2])
    ELSE Err(ConversionError_TryFrom("Tool"))

\* impl TryFrom<Tool> for T
Tool_try_from(T, tool) ==
    IF tool[1] \in ToolArms[T] THEN Ok(tool[2])
    ELSE Err(ConversionError_TryFrom("Tool"))

\* impl FromStr for HostedToolType
HostedToolType_from_str(s) ==
    CASE s = "file_search" -> Ok("FileSearch")
      [] s = "web_search_preview" -> Ok("WebSearchPreview")
      [] s = "computer_use_preview" -> Ok("ComputerUsePreview")
      [] OTHER -> Err(ConversionError_FromStr(s))

\* HostedToolType, #[serde(rename = "snake_case")]: the attribute renames the
\* enum itself, so each variant is written under its Rust name
HostedToolTypeT ==
    <<"enum", [FileSearch |-> "FileSearch", WebSearchPreview |-> "WebSearchPreview",
               ComputerUsePreview |-> "ComputerUsePreview"]>>

\* request::truncation::Truncation, #[serde(rename = "losercase")]: again a
\* rename of the enum, the variants keep their Rust names
TruncationT == <<"enum", [Auto |-> "Auto", Disabled |-> "Disabled"]>>

\* impl FromStr for Truncation
Truncation_from_str(s) ==
    CASE s = "auto" -> Ok("Auto")
      [] s = "disabled" -> Ok("Disabled")
      [] OTHER -> Err(ConversionError_FromStr(s))

\* the primitive enumerations the session parses and writes
EnumT ==
    [Role |-> RoleT, HostedToolType |-> HostedToolTypeT, Truncation |-> TruncationT,
     ImageGenerationBackground |-> ImageGenerationBackgroundT,
     ImageGenerationOutputFormat |-> ImageGenerationOutputFormatT]

\* T::from_str(s), T one of the enumerations above
Enum_from_str(T, s) ==
    CASE T = "Role" -> Role_from_str(s)
      [] T = "HostedToolType" -> HostedToolType_from_str(s)
      [] T = "Truncation" -> Truncation_from_str(s)
      [] T = "ImageGenerationBackground" -> ImageGenerationBackground_from_str(s)
      [] T = "ImageGenerationOutputFormat" -> ImageGenerationOutputFormat_from_str(s)

----------------------------------------------------------------------------
(* The session's steps on tools.                                           *)

\* largest value handed to partial_image
MaxPartialImage == 5

NewFileSearchTool ==
    \E vector_store_ids \in SeqsUpTo({"vs-1"}, MaxList) :
        /\ Built("FileSearchTool",
                 [vector_store_ids |-> vector_store_ids, filters |-> None,
                  max_num_results |-> None, ranking_options |-> None])
        /\ last' = <<"FileSearchTool::new", "-">>

SetMaxNumResults ==
    /\ val[1] = "FileSearchTool"
    /\ Built(val[1], [val[2] EXCEPT !.max_num_results = Some(8)])
    /\ last' = <<"FileSearchTool::max_num_results", "-">>

NewFunctionTool ==
    \E name \in {"", "name-1"}, strict \in BOOLEAN :
        /\ Built("FunctionTool",
                 [name |-> name, parameters |-> <<"obj", <<>>>>, strict |-> strict,
                  description |-> None])
        /\ last' = <<"FunctionTool::new", "-">>

NewComputerUseTool ==
    \E display_height \in {-1, 0, 1080}, display_width \in {-1, 0, 1920},
       environment \in {"", "browser"} :
        /\ Built("ComputerUseTool",
                 [display_height |-> display_height, display_width |-> display_width,
                  environment |-> environment])
        /\ last' = <<"ComputerUseTool::new", "-">>

NewWebSearchPreview ==
    /\ Built("WebSearchTool",
             [variant |-> "Preview", search_context_size |-> None,
              user_location |-> None])
    /\ last' = <<"WebSearchTool::preview", "-">>

NewWebSearchPreview2025_03_11 ==
    /\ Built("WebSearchTool",
             [variant |-> "Preview2025_03_11", search_context_size |-> None,
              user_location |-> None])
    /\ last' = <<"WebSearchTool::preview_2025_03_11", "-">>

SetSearchContextSize ==
    /\ val[1] = "WebSearchTool"
    /\ \E value \in {"Low", "Medium", "High"} :
          /\ Built(val[1], [val[2] EXCEPT !.search_context_size = Some(value)])
          /\ last' = <<"WebSearchTool::search_context_size", "-">>

NewMCPTool ==
    \E server_label \in {"", "label-1"}, server_url \in {"", "https://mcp.example"} :
        /\ Built("MCPTool",
                 [server_label |-> server_label, server_url |-> server_url,
                  allowed_tools |-> None, headers |-> None, require_approval |-> None])
        /\ last' = <<"MCPTool::new", "-">>

\* CodeInterpreterTool::new over containers made with
\* CodeInterpreterContainer::from_id and ::from_ids
NewCodeInterpreterTool ==
    \E container \in {<<"ID", "id-1">>,
                      <<"IDS", [type_field |-> "auto", file_ids |-> Some(<<"file-1">>)]>>} :
        /\ Built("CodeInterpreterTool", [container |-> container])
        /\ last' = <<"CodeInterpreterTool::new", "-">>

\* ImageGenerationTool::new, impl Default for ImageGenerationTool
NewImageGenerationTool ==
    /\ Built("ImageGenerationTool",
             [background |-> None, input_image_mask |-> None,
              model |-> Some("GptImage1"), moderation |-> Some("auto"),
              output_compression |-> Some(100), output_format |-> None,
              partial_image |-> Some(0), quality |-> None, size |-> None])
    /\ last' = <<"ImageGenerationTool::new", "-">>

\* ImageGenerationTool::model unwraps the parse
SetModel ==
    /\ val[1] = "ImageGenerationTool"
    /\ \E value \in {"gpt-image-1", "gpt-4o", "dall-e-3"} :
          /\ LET r == Unwrap(OpenAIModelId_from_str(value))
             IN  Tried(val[1], IF r[1] = "Ok"
                               THEN Ok([val[2] EXCEPT !.model = Some(r[2])])
                               ELSE r)
          /\ last' = <<"ImageGenerationTool::model", value>>

\* partial_image() that clamps instead of rejecting
ImageGenerationTool_partial_image_clamped(self, value) ==
    IF value > 3
    THEN Ok([self EXCEPT !.partial_image = Some(3)])
    ELSE Ok([self EXCEPT !.partial_image = Some(value)])

ImageGenerationTool_partial_image(self, value) ==
    IF value > 3
    THEN Err(InputError("InvalidPartialImage", value))
    ELSE Ok([self EXCEPT !.partial_image = Some(value)])

SetPartialImage ==
    /\ val[1] = "ImageGenerationTool"
    /\ \E value \in 0..MaxPartialImage :
          /\ Tried(val[1], ImageGenerationTool_partial_image(val[2], value))
          /\ last' = <<"ImageGenerationTool::partial_image", value>>

\* Tool::LocalShell, the variant without a payload
NewLocalShell ==
    /\ Built("Tool", <<"LocalShell", <<>>>>)
    /\ last' = <<"Tool::LocalShell", "-">>

\* HostedToolChoice::new unwraps the parse
NewHostedToolChoice ==
    \E hosted_tool_type \in {"file_search", "web_search_preview",
                             "computer_use_preview", "function", "WebSearchPreview"} :
        /\ LET r == Unwrap(HostedToolType_from_str(hosted_tool_type))
           IN  Tried("HostedToolChoice",
                     IF r[1] = "Ok" THEN Ok([type_field |-> r[2]]) ELSE r)
        /\ last' = <<"HostedToolChoice::new", hosted_tool_type>>

\* impl From<&str> for ComparisonOperator unwraps the parse:
\* let op: ComparisonOperator = s.into();
ConvertComparisonOperator ==
    \E s \in {"eq", "lte", "and", "EQ", "like"} :
        /\ Tried("ComparisonOperator", Unwrap(ComparisonOperator_from_str(s)))
        /\ last' = <<"ComparisonOperator::from", s>>

\* T::from_str(s) for a primitive enumeration T
FromStr ==
    \E T \in DOMAIN EnumT,
       s \in {"user", "assistant", "system", "developer", "file_search",
              "web_search_preview", "computer_use_preview", "auto", "disabled",
              "png", "webp", "jpeg", "transparent", "opaque",
              "PNG", "Jpeg", "User", "Auto", "FileSearch", "admin", ""} :
        /\ Tried(T, Enum_from_str(T, s))
        /\ last' = <<"from_str", <<T, s>>>>

\* let tool: Tool = x.into();
WrapTool ==
    /\ val[1] \in DOMAIN ToolArms
    /\ Built("Tool", Tool_from(val))
    /\ last' = <<"Tool::from", val[1]>>

\* T::try_from(tool)
UnwrapTool ==
    /\ val[1] = "Tool"
    /\ \E T \in DOMAIN ToolArms :
          /\ Tried(T, Tool_try_from(T, val[2]))
          /\ last' = <<"TryFrom<Tool>", T>>

----------------------------------------------------------------------------
(* Response formats (common/text.rs).                                      *)

\* ResponseFormatType, #[serde(rename_all = "snake_case")]
ResponseFormatTypeT ==
    <<"enum", [Text |-> "text", JsonSchema |-> "json_schema",
               JsonObject |-> "json_object"]>>

TextFormatT ==
    <<"struct", <<Fld("type_field", "type", ResponseFormatTypeT, "plain")>>>>

JsonSchemaFormatT ==
    <<"struct",
      <<Fld("type_field", "type", ResponseFormatTypeT, "plain"),
        Fld("name", "name", <<"String">>, "plain"),
        Fld("schema", "schema", <<"Value">>, "plain"),
        Fld("description", "description", <<"Option", <<"String">>>>, "skip_none"),
        Fld("strict", "strict", <<"Option", <<"bool">>>>, "skip_none")>>>>

JsonObjectFormatT ==
    <<"struct", <<Fld("type_field", "type", ResponseFormatTypeT, "plain")>>>>

\* #[serde(untagged)] enum ResponseFormat
ResponseFormatT ==
    <<"untagged", <<<<"Text", "", TextFormatT>>,
                    <<"JsonSchema", "", JsonSchemaFormatT>>,
                    <<"JsonObject", "", JsonObjectFormatT>>>>>>

\* the payload type each ResponseFormat variant is declared with
FormatPayloadType ==
    [Text |-> "TextFormat", JsonSchema |-> "JsonSchemaFormat",
     JsonObject |-> "JsonObjectFormat"]

\* impl From<X> for ResponseFormat, one per concrete format X
ResponseFormat_from(v) ==
    CASE v[1] = "TextFormat" -> <<"Text", v[2]>>
      [] v[1] = "JsonSchemaFormat" -> <<"JsonSchema", v[2]>>
      [] v[1] = "JsonObjectFormat" -> <<"JsonObject", v[2]>>

\* impl TryFrom<ResponseFormat> for T, each with one match arm
ResponseFormat_try_from(T, format) ==
    IF \/ T = "TextFormat" /\ format[1] = "Text"
       \/ T = "JsonSchemaFormat" /\ format[1] = "JsonSchema"
       \/ T = "JsonObjectFormat" /\ format[1] = "JsonObject"
    THEN Ok(format[2])
    ELSE Err(ConversionError_TryFrom("ResponseFormat"))

NewTextFormat ==
    /\ Built("TextFormat", [type_field |-> "Text"])
    /\ last' = <<"TextFormat::new", "-">>

NewJsonSchemaFormat ==
    \E name \in {"schema-1", "schema-2"},
       schema \in {<<"obj", <<>>>>, <<"obj", [type |-> <<"str", "object">>]>>} :
        /\ Built("JsonSchemaFormat",
                 [type_field |-> "JsonSchema", name |-> name, schema |-> schema,
                  description |-> None, strict |-> Some(FALSE)])
        /\ last' = <<"JsonSchemaFormat::new", "-">>

SetSchemaDescription ==
    /\ val[1] = "JsonSchemaFormat"
    /\ \E value \in {"text-1", "text-2"} :
          /\ Built(val[1], [val[2] EXCEPT !.description = Some(value)])
          /\ last' = <<"JsonSchemaFormat::description", "-">>

SetSchemaStrict ==
    /\ val[1] = "JsonSchemaFormat"
    /\ Built(val[1], [val[2] EXCEPT !.strict = Some(TRUE)])
    /\ last' = <<"JsonSchemaFormat::strict", "-">>

NewJsonObjectFormat ==
    /\ Built("JsonObjectFormat", [type_field |-> "JsonObject"])
    /\ last' = <<"JsonObjectFormat::new", "-">>

\* let format: ResponseFormat = x.into();
WrapFormat ==
    /\ val[1] \in {"TextFormat", "JsonSchemaFormat", "JsonObjectFormat"}
    /\ Built("ResponseFormat", ResponseFormat_from(val))
    /\ last' = <<"ResponseFormat::from", val[1]>>

\* T::try_from(format)
UnwrapFormat ==
    /\ val[1] = "ResponseFormat"
    /\ \E T \in {"TextFormat", "JsonSchemaFormat", "JsonObjectFormat"} :
          /\ Tried(T, ResponseFormat_try_from(T, val[2]))
          /\ last' = <<"TryFrom<ResponseFormat>", T>>

----------------------------------------------------------------------------
(* Requests (openai/types.rs, request.rs).                                 *)

\* #[serde(untagged)] enum Input, with InputMessage, TextInput and
\* InputItemContentList (request/input_models/input_message.rs)
InputT ==
    LET TypeT == <<"Option", <<"String">>>>
        TextInputT ==
            <<"struct", <<Fld("role", "role", RoleT, "plain"),
                          Fld("content", "content", <<"String">>, "plain"),
                          Fld("type_field", "type", TypeT, "skip_none")>>>>
        InputItemContentListT ==
            <<"struct", <<Fld("role", "role", RoleT, "plain"),
                          Fld("content", "content", <<"Vec", ContentT>>, "plain"),
                          Fld("type_field", "type", TypeT, "skip_none")>>>>
        InputMessageT ==
            <<"untagged", <<<<"TextInput", "", TextInputT>>,
                            <<"InputItemContentList", "", InputItemContentListT>>>>>>
    IN  <<"untagged", <<<<"Messages", "", <<"Vec", InputMessageT>>>>,
                        <<"Message", "", InputMessageT>>>>>>

\* an Input::from_item that takes the role of an input message item
Input_from_item_keeping_role(item) ==
    <<"Message",
      <<"InputItemContentList",
        [role |-> IF item[1] = "InputMessage" THEN item[2].role ELSE "User",
         content |-> <<>>, type_field |-> Some("message")]>>>>

\* Input::from_item: Message(InputItemContentList(item.into())), and
\* impl From<Item> for InputItemContentList, which does not read _item
Input_from_item(item) ==
    <<"Message",
      <<"InputItemContentList",
        [role |-> "User", content |-> <<>>, type_field |-> Some("message")]>>>>

\* Input::from_item_reference, and impl From<InputReference> for
\* InputItemContentList, which does not read _reference
Input_from_item_reference(reference) ==
    <<"Message",
      <<"InputItemContentList",
        [role |-> "User", content |-> <<>>, type_field |-> Some("message")]>>>>

\* Input::from_item(item), item the Item held
FromItem ==
    /\ val[1] = "Item"
    /\ Built("RequestInput", Input_from_item(val[2]))
    /\ last' = <<"Input::from_item", val[2]>>

\* Input::from_item_reference(reference), reference an InputReference::new(id)
\* with or without insert_type()
FromItemReference ==
    \E reference \in {[id |-> id, type_field |-> t] :
                         id \in {"123", "456"}, t \in {None, Some("item_reference")}} :
        /\ Built("RequestInput", Input_from_item_reference(reference))
        /\ last' = <<"Input::from_item_reference", reference>>

\* the optional fields OpenAIRequest and Request share, every one
\* #[serde(skip_serializing_if = "Option::is_none")].  Include and Reasoning
\* are read from util/include.rs and request/reasoning.rs; tr is the
\* request's Truncation type.
OptionalRequestFields(tr) ==
    LET opt(name, T) == Fld(name, name, <<"Option", T>>, "skip_none")
        IncludeT ==
            <<"enum", [FileSearchCallResults |-> "file_search_call.results",
                       MessageInputImageUrl |-> "message.input_image.image_url",
                       ComputerCallOutputImageUrl |->
                           "computer_call_output.output.image_url"]>>
        EffortT == <<"enum", [Low |-> "low", Medium |-> "medium", High |-> "high"]>>
        SummaryT ==
            <<"enum", [Auto |-> "auto", Concise |-> "concise", Detailed |-> "detailed"]>>
        ReasoningT == <<"struct", <<opt("effort", EffortT), opt("summary", SummaryT)>>>>
        ServiceTierT ==
            <<"enum", [Auto |-> "auto", Default |-> "default", Flex |-> "flex"]>>
        TextT == <<"struct", <<opt("format", ResponseFormatT)>>>>
        ToolChoiceModeT ==
            <<"enum", [None |-> "none", Auto |-> "auto", Required |-> "required"]>>
        HostedToolChoiceT ==
            <<"struct", <<Fld("type_field", "type", HostedToolTypeT, "plain")>>>>
        FunctionToolChoiceT ==
            <<"struct", <<Fld("name", "name", <<"String">>, "plain"),
                          Fld("type_field", "type", <<"String">>, "plain")>>>>
        ToolChoiceT ==
            <<"untagged", <<<<"Mode", "", ToolChoiceModeT>>,
                            <<"HostedTool", "", HostedToolChoiceT>>,
                            <<"FunctionTool", "", FunctionToolChoiceT>>>>>>
    IN  <<opt("include", <<"Vec", IncludeT>>),
          opt("instructions", <<"String">>),
          opt("max_output_tokens", <<"usize">>),
          opt("metadata", <<"Map", <<"String">>>>),
          opt("parallel_tool_calls", <<"bool">>),
          opt("previous_response_id", <<"String">>),
          opt("reasoning", ReasoningT),
          opt("service_tier", ServiceTierT),
          opt("store", <<"bool">>),
          opt("stream", <<"bool">>),
          opt("temperature", <<"f32">>),
          opt("text", TextT),
          opt("tool_choice", ToolChoiceT),
          opt("tools", <<"Vec", ToolT>>),
          opt("top_p", <<"f32">>),
          opt("truncation", tr),
          opt("user", <<"String">>)>>

\* struct OpenAIRequest (it has no stream field); its Truncation is
\* openai::common::truncation::Truncation, #[serde(rename_all = "lowercase")]
OpenAIRequestT ==
    LET fs == OptionalRequestFields(<<"enum", [Auto |-> "auto", Disabled |-> "disabled"]>>)
    IN  <<"struct",
          <<Fld("input", "input", InputT, "plain"),
            Fld("model", "model", OpenAIModelIdT, "plain")>>
          \o SelectSeq(fs, LAMBDA f : f.name # "stream")>>

\* struct Request<'a>: input is util::input::Input (the session passes text,
\* Input::Text), model a &str, truncation a Truncation of the "losercase" kind
RequestT ==
    <<"struct",
      <<Fld("input", "input", <<"untagged", <<<<"Text", "", <<"String">>>>>>>>, "plain"),
        Fld("model", "model", <<"String">>, "plain")>>
      \o OptionalRequestFields(TruncationT)>>

\* most optional fields a request is given (list elements counted one each)
MaxSetters == 2

\* what the session hands to each scalar setter
ScalarValues ==
    [instructions |-> {"be brief", "be kind"},
     max_output_tokens |-> {16, 32},
     parallel_tool_calls |-> BOOLEAN,
     previous_response_id |-> {"resp_1", "resp_2"},
     reasoning |-> {[effort |-> None, summary |-> None],
                    [effort |-> Some("Low"), summary |-> None]},
     service_tier |-> {"Auto", "Flex"},
     store |-> BOOLEAN,
     temperature |-> {0, 1},
     text |-> {[format |-> Some(<<"Text", [type_field |-> "Text"]>>)],
               [format |-> Some(<<"JsonObject", [type_field |-> "JsonObject"]>>)]},
     tool_choice |-> {<<"Mode", "Auto">>, <<"Mode", "Required">>},
     top_p |-> {0, 1},
     truncation |-> {"Auto", "Disabled"},
     user |-> {"u1", "u2"}]

\* a scalar setter whose second call keeps the first value
OpenAIRequest_set_once(self, field, value) ==
    IF self[field] = None THEN [self EXCEPT ![field] = Some(value)] ELSE self

\* the body every scalar setter has: self.field = Some(value); self
OpenAIRequest_set(self, field, value) == [self EXCEPT ![field] = Some(value)]

\* add_tool / include that replace the list
OpenAIRequest_push_replacing(self, field, value) ==
    [self EXCEPT ![field] = Some(<<value>>)]

\* the body add_tool and include have:
\* match self.field { Some(ref mut l) => l.push(value), None => self.field = Some(vec![value]) }
OpenAIRequest_push(self, field, value) ==
    [self EXCEPT ![field] = IF @ = None THEN Some(<<value>>)
                            ELSE Some(Append(@[2], value))]

\* a setter call on the request held: r is what it returns.  A call that
\* would take the request past MaxSetters optional values is not made.
Setter(ty, r) ==
    LET count(x) ==
            Cardinality({f \in DOMAIN x \ {"input", "model"} : x[f] # None})
            + (IF x.tools # None THEN Len(x.tools[2]) - 1 ELSE 0)
            + (IF x.include # None THEN Len(x.include[2]) - 1 ELSE 0)
    IN  /\ val[1] = ty
        /\ count(r) <= MaxSetters
        /\ Built(ty, r)

\* OpenAIRequest::new(model, input): ..Default::default() for the rest
NewOpenAIRequest ==
    \E input \in {<<"Message", <<"TextInput", [role |-> "User", content |-> "hi",
                                               type_field |-> None]>>>>,
                  <<"Messages", <<>>>>} :
        /\ Built("OpenAIRequest",
                 [input |-> input, model |-> "Gpt4O", include |-> None,
                  instructions |-> None, max_output_tokens |-> None,
                  metadata |-> None, parallel_tool_calls |-> None,
                  previous_response_id |-> None, reasoning |-> None,
                  service_tier |-> None, store |-> None, temperature |-> None,
                  text |-> None, tool_choice |-> None, tools |-> None,
                  top_p |-> None, truncation |-> None, user |-> None])
        /\ last' = <<"OpenAIRequest", "new", "-">>

Include ==
    \E value \in {"FileSearchCallResults", "MessageInputImageUrl"} :
        /\ Setter("OpenAIRequest",
                  OpenAIRequest_push(val[2], "include", value))
        /\ last' = <<"OpenAIRequest", "include", value>>

SetInstructions ==
    \E value \in ScalarValues.instructions :
        /\ Setter("OpenAIRequest",
                  OpenAIRequest_set(val[2], "instructions", value))
        /\ last' = <<"OpenAIRequest", "instructions", value>>

SetMaxOutputTokens ==
    \E value \in ScalarValues.max_output_tokens :
        /\ Setter("OpenAIRequest",
                  OpenAIRequest_set(val[2], "max_output_tokens", value))
        /\ last' = <<"OpenAIRequest", "max_output_tokens", value>>

\* insert_metadata(key, value): HashMap::insert into the map, made if absent
InsertMetadata ==
    \E key \in {"k1", "k2"}, value \in {"a", "b"} :
        /\ Setter("OpenAIRequest",
                  [val[2] EXCEPT !.metadata =
                       IF @ = None THEN Some(key :> value)
                       ELSE Some((key :> value) @@ @[2])])
        /\ last' = <<"OpenAIRequest", "insert_metadata", <<key, value>>>>

SetParallelToolCalls ==
    \E value \in ScalarValues.parallel_tool_calls :
        /\ Setter("OpenAIRequest",
                  OpenAIRequest_set(val[2], "parallel_tool_calls", value))
        /\ last' = <<"OpenAIRequest", "parallel_tool_calls", value>>

SetPreviousResponseId ==
    \E value \in ScalarValues.previous_response_id :
        /\ Setter("OpenAIRequest",
                  OpenAIRequest_set(val[2], "previous_response_id", value))
        /\ last' = <<"OpenAIRequest", "previous_response_id", value>>

SetReasoning ==
    \E value \in ScalarValues.reasoning :
        /\ Setter("OpenAIRequest",
                  OpenAIRequest_set(val[2], "reasoning", value))
        /\ last' = <<"OpenAIRequest", "reasoning", value>>

SetServiceTier ==
    \E value \in ScalarValues.service_tier :
        /\ Setter("OpenAIRequest",
                  OpenAIRequest_set(val[2], "service_tier", value))
        /\ last' = <<"OpenAIRequest", "service_tier", value>>

SetStore ==
    \E value \in ScalarValues.store :
        /\ Setter("OpenAIRequest",
                  OpenAIRequest_set(val[2], "store", value))
        /\ last' = <<"OpenAIRequest", "store", value>>

SetTemperature ==
    \E value \in ScalarValues.temperature :
        /\ Setter("OpenAIRequest",
                  OpenAIRequest_set(val[2], "temperature", value))
        /\ last' = <<"OpenAIRequest", "temperature", value>>

SetText ==
    \E value \in ScalarValues.text :
        /\ Setter("OpenAIRequest",
                  OpenAIRequest_set(val[2], "text", value))
        /\ last' = <<"OpenAIRequest", "text", value>>

SetToolChoice ==
    \E value \in ScalarValues.tool_choice :
        /\ Setter("OpenAIRequest",
                  OpenAIRequest_set(val[2], "tool_choice", value))
        /\ last' = <<"OpenAIRequest", "tool_choice", value>>

AddTool ==
    \E value \in {<<"LocalShell", <<>>>>,
                  <<"WebSearch", [variant |-> "Preview", search_context_size |-> None,
                                  user_location |-> None]>>} :
        /\ Setter("OpenAIRequest",
                  OpenAIRequest_push(val[2], "tools", value))
        /\ last' = <<"OpenAIRequest", "add_tool", value>>

SetTopP ==
    \E value \in ScalarValues.top_p :
        /\ Setter("OpenAIRequest",
                  OpenAIRequest_set(val[2], "top_p", value))
        /\ last' = <<"OpenAIRequest", "top_p", value>>

SetTruncation ==
    \E value \in ScalarValues.truncation :
        /\ Setter("OpenAIRequest",
                  OpenAIRequest_set(val[2], "truncation", value))
        /\ last' = <<"OpenAIRequest", "truncation", value>>

SetUser ==
    \E value \in ScalarValues.user :
        /\ Setter("OpenAIRequest",
                  OpenAIRequest_set(val[2], "user", value))
        /\ last' = <<"OpenAIRequest", "user", value>>

\* OpenAIRequest::default(), #[derive(Default)]: Input::default() is
\* Messages(Vec::new()), OpenAIModelId::default() is Gpt3_5Turbo
DefaultOpenAIRequest ==
    /\ Built("OpenAIRequest",
             [input |-> <<"Messages", <<>>>>, model |-> "Gpt3_5Turbo",
              include |-> None, instructions |-> None, max_output_tokens |-> None,
              metadata |-> None, parallel_tool_calls |-> None,
              previous_response_id |-> None, reasoning |-> None,
              service_tier |-> None, store |-> None, temperature |-> None,
              text |-> None, tool_choice |-> None, tools |-> None,
              top_p |-> None, truncation |-> None, user |-> None])
    /\ last' = <<"OpenAIRequest", "default", "-">>

\* Request::default(), #[derive(Default)]: util::input::Input::default() is
\* Input::empty(), that is Input::Text("")
DefaultRequest ==
    /\ Built("Request",
             [input |-> <<"Text", "">>, model |-> "",
              include |-> None, instructions |-> None, max_output_tokens |-> None,
              metadata |-> None, parallel_tool_calls |-> None,
              previous_response_id |-> None, reasoning |-> None,
              service_tier |-> None, store |-> None, stream |-> None,
              temperature |-> None, text |-> None, tool_choice |-> None,
              tools |-> None, top_p |-> None, truncation |-> None, user |-> None])
    /\ last' = <<"Request", "default", "-">>

\* Request::new(model, input)
NewRequest ==
    /\ Built("Request",
             [input |-> <<"Text", "test-input">>, model |-> "test-model",
              include |-> None, instructions |-> None, max_output_tokens |-> None,
              metadata |-> None, parallel_tool_calls |-> None,
              previous_response_id |-> None, reasoning |-> None,
              service_tier |-> None, store |-> None, stream |-> None,
              temperature |-> None, text |-> None, tool_choice |-> None,
              tools |-> None, top_p |-> None, truncation |-> None, user |-> None])
    /\ last' = <<"Request", "new", "-">>

\* Request::truncation(value: Truncation)
SetRequestTruncation ==
    \E value \in ScalarValues.truncation :
        /\ Setter("Request",
                  [val[2] EXCEPT !.truncation = Some(value)])
        /\ last' = <<"Request", "truncation", value>>

\* Request::user(value: Truncation): self.truncation = Some(value); self
SetRequestUser ==
    \E value \in ScalarValues.truncation :
        /\ Setter("Request",
                  [val[2] EXCEPT !.truncation = Some(value)])
        /\ last' = <<"Request", "user", value>>

----------------------------------------------------------------------------
(* Streaming: OpenAIProvider::stream and the events it decodes.            *)
(*                                                                         *)
(* The transport hands over chunks, each a Result<Bytes, reqwest::Error>:  *)
(* Ok(<<"json", document>>) for bytes that are a JSON text,                *)
(* Ok(<<"text", s>>) for bytes that are not, Err(e) for a transport error. *)
(* The stream held is <<"Stream", [chunks |-> the chunks received so far,  *)
(* items |-> the items yielded so far]>>.                                  *)

\* at most this many chunks are received on one stream
MaxChunks == 4

\* #[serde(tag = "type")] enum StreamingEvent: the response events, which
\* carry a StreamingResponse, the content-part and text events, addressed
\* by (item_id, output_index, content_index), and the bare error event
StreamingEventT ==
    LET plain(name, T) == Fld(name, name, T, "plain")
        RequestField(name) ==
            LET fs == OptionalRequestFields(
                          <<"enum", [Auto |-> "auto", Disabled |-> "disabled"]>>)
            IN  fs[CHOOSE i \in 1..Len(fs) : fs[i].name = name]
        opt(name, T) == Fld(name, name, <<"Option", T>>, "skip_none")
        UsageT ==
            <<"struct",
              <<plain("input_tokens", <<"usize">>),
                plain("input_tokens_details",
                      <<"struct", <<plain("cached_tokens", <<"usize">>)>>>>),
                plain("output_tokens", <<"usize">>),
                plain("output_tokens_details",
                      <<"struct", <<plain("reasoning_tokens", <<"usize">>)>>>>),
                plain("total_tokens", <<"usize">>)>>>>
        ResponseOutputT ==
            <<"tagged", "type",
              <<<<"OutputMessage", "message", OutputMessageItemT>>,
                <<"FileSearchToolCall", "file_search_call", FileSearchToolCallItemT>>,
                <<"ComputerToolCall", "computer_call", ComputerToolCallItemT>>,
                <<"WebSearchToolCall", "web_search_call", WebSearchToolCallItemT>>,
                <<"FunctionToolCall", "function_call", FunctionToolCallItemT>>,
                <<"Reasoning", "reasoning", ReasoningItemT>>>>>>
        StreamingResponseT ==
            <<"struct",
              <<plain("created_at", <<"usize">>),
                opt("error", <<"struct", <<plain("code", <<"String">>),
                                           plain("message", <<"String">>)>>>>),
                plain("id", <<"String">>),
                opt("incomplete_details",
                    <<"struct", <<plain("reason", <<"String">>)>>>>),
                RequestField("instructions"),
                plain("metadata", <<"Map", <<"String">>>>),
                plain("model", <<"String">>),
                plain("object", <<"String">>),
                plain("output", <<"Vec", ResponseOutputT>>),
                plain("parallel_tool_calls", <<"bool">>),
                RequestField("temperature"),
                plain("tool_choice", RequestField("tool_choice").ty[2]),
                plain("tools", RequestField("tools").ty[2]),
                RequestField("top_p"),
                RequestField("max_output_tokens"),
                RequestField("previous_response_id"),
                RequestField("reasoning"),
                RequestField("service_tier"),
                plain("status", StatusT),
                plain("text", RequestField("text").ty[2]),
                RequestField("truncation"),
                plain("usage", UsageT),
                plain("user", <<"String">>)>>>>
        Response == <<"struct", <<plain("response", StreamingResponseT)>>>>
        Addressed(payload) ==
            <<"struct",
              <<Fld("item_id", "item_id", <<"String">>, "plain"),
                Fld("output_index", "output_index", <<"usize">>, "plain"),
                Fld("content_index", "content_index", <<"usize">>, "plain")>>
              \o payload>>
        Str(name) == <<Fld(name, name, <<"String">>, "plain")>>
        OutputContentT == OutputMessageItemT[2][1].ty[2]
        Part == <<Fld("part", "part", OutputContentT, "plain")>>
    IN  <<"tagged", "type",
          <<<<"Created", "response.created", Response>>,
            <<"InProgress", "response.in_progress", Response>>,
            <<"Completed", "response.completed", Response>>,
            <<"Failed", "response.failed", Response>>,
            <<"Incomplete", "response.incomplete", Response>>,
            <<"ContentPartAdded", "response.content_part.added", Addressed(Part)>>,
            <<"ContentPartDone", "response.content_part.done", Addressed(Part)>>,
            <<"OutputTextDelta", "response.output_text.delta",
              Addressed(Str("delta"))>>,
            <<"OutputTextDone", "response.output_text.done",
              Addressed(Str("text"))>>,
            <<"RefusalDelta", "response.refusal.delta", Addressed(Str("delta"))>>,
            <<"RefusalDone", "response.refusal.done", Addressed(Str("refusal"))>>,
            <<"Error", "error",
              <<"struct",
                <<Fld("code", "code", <<"Option", <<"String">>>>, "skip_none"),
                  Fld("message", "message", <<"String">>, "plain"),
                  Fld("param", "param", <<"Option", <<"String">>>>, "skip_none")>>>>>>>>>>

\* a wrap_for_streaming that inserts nothing
wrap_for_streaming_unwrapped(self) == Ser(OpenAIRequestT, self)

\* OpenAIRequest::wrap_for_streaming: the request's own document with the
\* key "stream" inserted
wrap_for_streaming(self) ==
    <<"obj", ("stream" :> <<"bool", TRUE>>) @@ Ser(OpenAIRequestT, self)[2]>>

\* the closure stream() maps over the byte stream:
\* chunk_result.map_err(NetworkError).and_then(|chunk| from_slice(&chunk)
\*     .map_err(DeserializationError))
parsed_stream_map(chunk_result) ==
    IF chunk_result[1] = "Err"
    THEN Err(<<"NetworkError", chunk_result[2]>>)
    ELSE LET r == IF chunk_result[2][1] = "json"
                  THEN De(StreamingEventT, chunk_result[2][2])
                  ELSE Err("decode")
         IN  IF r[1] = "Ok" THEN r ELSE Err(<<"DeserializationError", r[2]>>)

\* the text of a yielded delta item, the last delta's text for a done item
parsed_stream_next_preferring_deltas(items, chunk_result) ==
    LET r == parsed_stream_map(chunk_result)
        n == Len(items)
    IN  IF /\ r[1] = "Ok" /\ r[2][1] = "OutputTextDone"
           /\ n > 0 /\ items[n][1] = "Ok" /\ items[n][2][1] = "OutputTextDelta"
        THEN Append(items, Ok(<<"OutputTextDone",
                                [r[2][2] EXCEPT !.text = items[n][2][2].delta]>>))
        ELSE Append(items, r)

\* a chunk that does not decode yields nothing
parsed_stream_next_skipping_errors(items, chunk_result) ==
    LET r == parsed_stream_map(chunk_result)
    IN  IF r[1] = "Ok" \/ r[2][1] = "NetworkError" THEN Append(items, r) ELSE items

\* a chunk equal to the one before it yields nothing
parsed_stream_next_deduplicating(items, chunk_result) ==
    LET r == parsed_stream_map(chunk_result)
    IN  IF items # <<>> /\ items[Len(items)] = r THEN items ELSE Append(items, r)

\* stream.map(closure), polled once: the next chunk yields one item, the
\* closure's result for it
parsed_stream_next(items, chunk_result) ==
    Append(items, parsed_stream_map(chunk_result))

\* the fields fs, with those named in names declared Option<_> and skipped
\* when None
WithOptional(fs, names) ==
    [i \in 1..Len(fs) |->
        IF fs[i].name \in names
        THEN Fld(fs[i].name, fs[i].key, <<"Option", fs[i].ty>>, "skip_none")
        ELSE fs[i]]

\* struct OpenAIResponse: the fields of StreamingResponse, with metadata and
\* user optional
OpenAIResponseT ==
    <<"struct", WithOptional(StreamingEventT[3][1][3][2][1].ty[2],
                             {"metadata", "user"})>>

\* the bodies a 2xx reply may carry: a complete response document and one
\* without the required fields
ResponseBodies ==
    LET usage == <<"obj", [input_tokens |-> <<"num", 1>>,
                           input_tokens_details |->
                               <<"obj", [cached_tokens |-> <<"num", 0>>]>>,
                           output_tokens |-> <<"num", 2>>,
                           output_tokens_details |->
                               <<"obj", [reasoning_tokens |-> <<"num", 0>>]>>,
                           total_tokens |-> <<"num", 3>>]>>
        body == <<"obj", [created_at |-> <<"num", 0>>, id |-> <<"str", "resp_1">>,
                          model |-> <<"str", "gpt-4o">>,
                          object |-> <<"str", "response">>,
                          output |-> <<"arr", <<>>>>,
                          parallel_tool_calls |-> <<"bool", TRUE>>,
                          tool_choice |-> <<"str", "auto">>, tools |-> <<"arr", <<>>>>,
                          status |-> <<"str", "completed">>, text |-> <<"obj", <<>>>>,
                          usage |-> usage]>>
    IN  {body, <<"obj", <<>>>>}

\* serde_json::from_slice::<OpenAIResponse> on each of those bodies
OpenAIResponse_from_json == [body \in ResponseBodies |-> De(OpenAIResponseT, body)]

\* OpenAIProvider::generate(&request): posts the request as it serialises;
\* a transport failure or a non-success status is returned as the error,
\* otherwise the body is read as an OpenAIResponse.  The request stays with
\* the caller.
Generate ==
    LET outcomes == {<<"send failed", "-", Err("-")>>, <<"status", 401, Err("-")>>}
                        \cup {<<"body", body, OpenAIResponse_from_json[body]>> :
                                 body \in ResponseBodies}
    IN  \E outcome \in outcomes :
            LET r == outcome[3]
            IN  /\ val[1] = "OpenAIRequest"
                /\ val' = val
                /\ err' = CASE outcome[1] = "send failed" ->
                                  <<"NetworkError", outcome[1]>>
                            [] outcome[1] = "status" ->
                                  <<"ApiError", [status |-> outcome[2],
                                                 message |-> "unauthorized"]>>
                            [] r[1] = "Ok" -> Nothing
                            [] OTHER -> <<"DeserializationError", r[2]>>
                /\ wire' = IF outcome[1] = "send failed" THEN Nothing
                           ELSE <<"GenerationRequest", Ser(OpenAIRequestT, val[2])>>
                /\ dec' = IF r[1] = "Ok" THEN <<"OpenAIResponse", r>> ELSE Nothing
                /\ last' = <<"generate", outcome[1]>>

\* OpenAIProvider::stream(&request): posts the wrapped request; a transport
\* failure or a non-success status is returned as the error, the request
\* stays with the caller
OpenStream ==
    \E outcome \in {"success", "send failed", "status 401"} :
        /\ val[1] = "OpenAIRequest"
        /\ val' = IF outcome = "success"
                  THEN <<"Stream", [chunks |-> <<>>, items |-> <<>>]>>
                  ELSE val
        /\ err' = CASE outcome = "success" -> Nothing
                    [] outcome = "send failed" -> <<"NetworkError", outcome>>
                    [] outcome = "status 401" ->
                          <<"ApiError", [status |-> 401, message |-> "unauthorized"]>>
        /\ wire' = IF outcome = "send failed" THEN Nothing
                   ELSE <<"StreamingRequest", wrap_for_streaming(val[2])>>
        /\ dec' = Nothing
        /\ last' = <<"stream", outcome>>

\* StreamExt::next on the stream held: the transport delivers one more
\* chunk and the stream yields its item.  The chunks are event documents
\* as the API writes them (text events, response.completed, error), one
\* with a type that is no event's, one with no type, bytes that are not
\* JSON, and a transport error.
StreamNext ==
    LET EventDoc(type, item_id, content_index, key, value) ==
            LET body == [item_id |-> <<"str", item_id>>,
                         output_index |-> <<"num", 0>>,
                         content_index |-> <<"num", content_index>>]
                        @@ (key :> value)
            IN  <<"obj", IF type = "-" THEN body
                         ELSE ("type" :> <<"str", type>>) @@ body>>
        part == <<"obj", [type |-> <<"str", "output_text">>,
                          annotations |-> <<"arr", <<>>>>,
                          text |-> <<"str", "">>]>>
        response ==
            <<"obj", [created_at |-> <<"num", 0>>, id |-> <<"str", "resp_1">>,
                      metadata |-> <<"obj", <<>>>>, model |-> <<"str", "gpt-4o">>,
                      object |-> <<"str", "response">>, output |-> <<"arr", <<>>>>,
                      parallel_tool_calls |-> <<"bool", TRUE>>,
                      tool_choice |-> <<"str", "auto">>, tools |-> <<"arr", <<>>>>,
                      status |-> <<"str", "completed">>, text |-> <<"obj", <<>>>>,
                      usage |-> <<"obj", [input_tokens |-> <<"num", 1>>,
                                          input_tokens_details |->
                                              <<"obj", [cached_tokens |-> <<"num", 0>>]>>,
                                          output_tokens |-> <<"num", 2>>,
                                          output_tokens_details |->
                                              <<"obj", [reasoning_tokens |-> <<"num", 0>>]>>,
                                          total_tokens |-> <<"num", 3>>]>>,
                      user |-> <<"str", "">>]>>
        docs ==
            {EventDoc("response.content_part.added", "msg_1", i, "part", part) :
                i \in {0, 1}}
            \cup {EventDoc("response.output_text.delta", "msg_1", 0, "delta",
                           <<"str", s>>) : s \in {"He", "llo"}}
            \cup {EventDoc("response.output_text.done", "msg_1", 0, "text",
                           <<"str", s>>) : s \in {"Hello", "Hi"}}
            \cup {EventDoc(t, "msg_1", 0, "text", <<"str", "Hello">>) :
                    t \in {"response.output_text.finished", "-"}}
            \cup {<<"obj", [type |-> <<"str", "response.completed">>,
                            response |-> response]>>,
                  <<"obj", [type |-> <<"str", "error">>,
                            message |-> <<"str", "server error">>]>>}
    IN  \E chunk_result \in {Ok(<<"json", d>>) : d \in docs}
                            \cup {Ok(<<"text", "data: ">>), Err("connection reset")} :
            /\ val[1] = "Stream"
            /\ Len(val[2].chunks) < MaxChunks
            /\ Built("Stream",
                     [chunks |-> Append(val[2].chunks, chunk_result),
                      items |-> parsed_stream_next(val[2].items, chunk_result)])
            /\ last' = <<"next", chunk_result>>

----------------------------------------------------------------------------
(* Encoding, decoding, and the session as a whole.                         *)

\* the types the session serialises
UnionT ==
    [Item |-> ItemT, Tool |-> ToolT, ResponseFormat |-> ResponseFormatT,
     OpenAIRequest |-> OpenAIRequestT, Request |-> RequestT,
     Content |-> ContentT, RequestInput |-> InputT] @@ EnumT

\* serde_json::to_value(&value)
Encode ==
    /\ val[1] \in DOMAIN UnionT
    /\ wire' = <<val[1], Ser(UnionT[val[1]], val[2])>>
    /\ dec' = Nothing
    /\ last' = <<"to_value", "-">>
    /\ UNCHANGED <<val, err>>

\* serde_json::from_value::<U>(document), U the union the document came from
Decode ==
    /\ wire[1] \in DOMAIN UnionT
    /\ dec' = <<wire[1], De(UnionT[wire[1]], wire[2])>>
    /\ last' = <<"from_value", "-">>
    /\ UNCHANGED <<val, err, wire>>

Init ==
    /\ val = Nothing
    /\ err = Nothing
    /\ wire = Nothing
    /\ dec = Nothing
    /\ last = <<"start", "-">>

Next ==
    \/ NewInputMessageItem \/ SetRole \/ InsertType
    \/ NewOutputMessageItem
    \/ NewFileSearchToolCallItem
    \/ Click \/ NewComputerToolCallItem
    \/ NewComputerToolCallOutputItem \/ SetAcknowledgedSafetyChecks
    \/ NewWebSearchToolCallItem
    \/ NewFunctionToolCallItem
    \/ NewFunctionToolCallOutputItem
    \/ NewReasoningItem \/ SetEncryptedContent
    \/ SetItemId \/ SetItemStatus
    \/ WrapItem \/ FromItem \/ FromItemReference
    \/ NewFileSearchTool \/ SetMaxNumResults
    \/ NewFunctionTool
    \/ NewComputerUseTool
    \/ NewWebSearchPreview \/ NewWebSearchPreview2025_03_11 \/ SetSearchContextSize
    \/ NewMCPTool
    \/ NewCodeInterpreterTool
    \/ NewImageGenerationTool \/ SetModel \/ SetPartialImage
    \/ NewLocalShell \/ NewHostedToolChoice \/ ConvertComparisonOperator
    \/ FromStr
    \/ WrapTool \/ UnwrapTool
    \/ NewTextFormat
    \/ NewJsonSchemaFormat \/ SetSchemaDescription \/ SetSchemaStrict
    \/ NewJsonObjectFormat
    \/ WrapFormat \/ UnwrapFormat
    \/ Encode \/ Decode

Spec == Init /\ [][Next]_vars

\* a session that builds and serialises requests
NextRequest ==
    \/ NewOpenAIRequest
    \/ Include \/ SetInstructions \/ SetMaxOutputTokens \/ InsertMetadata
    \/ SetParallelToolCalls \/ SetPreviousResponseId \/ SetReasoning
    \/ SetServiceTier \/ SetStore \/ SetTemperature \/ SetText \/ SetToolChoice
    \/ AddTool \/ SetTopP \/ SetTruncation \/ SetUser
    \/ NewRequest \/ SetRequestTruncation \/ SetRequestUser
    \/ DefaultOpenAIRequest \/ DefaultRequest
    \/ Encode

SpecRequest == Init /\ [][NextRequest]_vars

\* a session that opens a stream and reads it
NextStream ==
    \/ NewOpenAIRequest \/ SetInstructions \/ SetStore \/ AddTool
    \/ Generate \/ OpenStream \/ StreamNext

SpecStream == Init /\ [][NextStream]_vars

\* a session that builds contents, serialises them and reads them back
NextContent ==
    \/ NewTextContent \/ SetContentText
    \/ NewImageContent \/ SetImageUrl \/ SetImageFileId \/ SetDetail
    \/ NewFileContent \/ SetFileId \/ SetFileData \/ SetFilename
    \/ WrapContent
    \/ Encode \/ Decode

SpecContent == Init /\ [][NextContent]_vars

\* a session that builds an input and appends contents to it
NextInput ==
    \/ BuildTextInput \/ BuildSingleContentInput \/ BuildMultiContentInput
    \/ AppendContent

SpecInput == Init /\ [][NextInput]_vars

----------------------------------------------------------------------------
(* Properties.                                                             *)

\* C1: decoding the document an Item encodes to yields that same Item
\* (same variant, same field values).
ItemRoundTrip == dec[1] = "Item" => dec[2] = Ok(val[2])

\* C2: a web-search tool built with the dated selector encodes with type
\* "web_search_preview_2025_03_11" and decodes back to the same tool, its
\* variant selector still the dated one.
DatedWebSearchRoundTrip ==
    (val[1] = "Tool" /\ val[2][1] = "WebSearchPreview2025_03_11") =>
        /\ wire[1] = "Tool" =>
              wire[2][2].type = <<"str", "web_search_preview_2025_03_11">>
        /\ dec[1] = "Tool" =>
              /\ dec[2][1] = "Ok"
              /\ dec[2][2][2].variant = "Preview2025_03_11"
              /\ dec[2] = Ok(val[2])

\* C3: role(r) fails with InvalidRole("assistant") for r = "assistant", sets
\* the role to r for user, system and developer, and fails with a conversion
\* error carrying r for any other string; it never yields an assistant item.
RoleContract ==
    last[1] = "InputMessageItem::role" =>
        LET r == last[2]
        IN  /\ r = "assistant" =>
                  /\ err = InputError("InvalidRole", "assistant")
                  /\ val = Nothing
            /\ r \in {"user", "system", "developer"} =>
                  /\ err = Nothing
                  /\ val[1] = "InputMessageItem"
                  /\ RoleT[2][val[2].role] = r
            /\ r \notin {"user", "assistant", "system", "developer"} =>
                  /\ err = InputError("ConversionError", ConversionError_FromStr(r))
                  /\ val = Nothing
            /\ val[1] = "InputMessageItem" => val[2].role # "Assistant"

RoleRejected ==
    /\ last = <<"InputMessageItem::role", "assistant">>
    /\ err = InputError("InvalidRole", "assistant")
    /\ val = Nothing

\* C4: every input message item the builder hands out, wrapped into Item or
\* not, has role user, system or developer.
NoAssistantInputMessage ==
    /\ val[1] = "InputMessageItem" =>
           val[2].role \in {"User", "System", "Developer"}
    /\ (val[1] = "Item" /\ val[2][1] = "InputMessage") =>
           val[2][2].role \in {"User", "System", "Developer"}

DeveloperMessageBuilt ==
    /\ val[1] = "Item"
    /\ val[2][1] = "InputMessage"
    /\ val[2][2].role = "Developer"
    /\ val[2][2].type_field = Some("message")

\* C5: decoding the document a ResponseFormat encodes to yields the same
\* variant with the same field values.
ResponseFormatRoundTrip ==
    dec[1] = "ResponseFormat" => dec[2] = Ok(val[2])

\* C6: unwrapping undoes wrapping, T::try_from(U::from(x)) = Ok(x), and
\* unwrapping a union value into a type its variant does not carry is a
\* conversion error that yields no value, for Tool and for ResponseFormat.
UnwrapInvertsWrap ==
    LET FormatTypes == {FormatPayloadType[v] : v \in DOMAIN FormatPayloadType}
    IN  /\ val[1] \in DOMAIN ToolArms =>
              Tool_try_from(val[1], Tool_from(val)) = Ok(val[2])
        /\ val[1] = "Tool" =>
              \A T \in DOMAIN ToolArms :
                  ToolPayloadType[val[2][1]] # T =>
                      Tool_try_from(T, val[2]) = Err(ConversionError_TryFrom("Tool"))
        /\ val[1] \in FormatTypes =>
              ResponseFormat_try_from(val[1], ResponseFormat_from(val)) = Ok(val[2])
        /\ val[1] = "ResponseFormat" =>
              \A T \in FormatTypes :
                  FormatPayloadType[val[2][1]] # T =>
                      ResponseFormat_try_from(T, val[2])
                          = Err(ConversionError_TryFrom("ResponseFormat"))
        /\ last[1] \in {"TryFrom<Tool>", "TryFrom<ResponseFormat>"} =>
              \/ err = Nothing /\ val[1] = last[2]
              \/ err[1] = "ConversionError::TryFrom" /\ val = Nothing

DatedWebSearchUnwrapped ==
    /\ last = <<"TryFrom<Tool>", "WebSearchTool">>
    /\ val[1] = "WebSearchTool"
    /\ val[2].variant = "Preview2025_03_11"

\* C7: partial_image(v) fails with InvalidPartialImage(v) for v > 3 and stores
\* exactly v for v in 0..3, so a tool's partial_image, when present, is in 0..3.
PartialImageContract ==
    LET partial_image ==
            IF val[1] = "ImageGenerationTool" THEN val[2].partial_image
            ELSE IF val[1] = "Tool" /\ val[2][1] = "ImageGeneration"
                 THEN val[2][2].partial_image
            ELSE None
    IN  /\ last[1] = "ImageGenerationTool::partial_image" =>
              IF last[2] > 3
              THEN err = InputError("InvalidPartialImage", last[2]) /\ val = Nothing
              ELSE err = Nothing /\ partial_image = Some(last[2])
        /\ partial_image # None => partial_image[2] \in 0..3

PartialImageRejected ==
    /\ last = <<"ImageGenerationTool::partial_image", 4>>
    /\ err = InputError("InvalidPartialImage", 4)
    /\ val = Nothing

\* C8: no FileSearchTool is built with an empty vector_store_ids list, bare
\* or wrapped into Tool.
VectorStoreIdsNonEmpty ==
    /\ val[1] = "FileSearchTool" => Len(val[2].vector_store_ids) >= 1
    /\ (val[1] = "Tool" /\ val[2][1] = "FileSearch") =>
           Len(val[2][2].vector_store_ids) >= 1

\* C9: no FunctionTool is built with an empty name, no ComputerUseTool with a
\* display height or width that is not positive or an empty environment, no
\* MCPTool with an empty server_label or server_url.
RequiredFieldsValidated ==
    /\ val[1] = "FunctionTool" => val[2].name # ""
    /\ val[1] = "ComputerUseTool" =>
          /\ val[2].display_height > 0
          /\ val[2].display_width > 0
          /\ val[2].environment # ""
    /\ val[1] = "MCPTool" => val[2].server_label # "" /\ val[2].server_url # ""

\* C10: a call given a string outside its closed vocabulary returns an error
\* value; it never panics.
NeverPanics == err[1] # "panic"

\* C11: the string written on the wire for an enumeration value is exactly the
\* string parse accepts for it: parse(w) = Ok(e), and parse(s) = Ok(e) only
\* for s = w.
EnumWireParses ==
    /\ wire[1] \in DOMAIN EnumT =>
           Enum_from_str(wire[1], wire[2][2]) = Ok(val[2])
    /\ (last[1] = "from_str" /\ val[1] # "-") =>
           last[2][2] = EnumT[val[1]][2][val[2]]

\* C12: parse succeeds only on one of the documented wire strings, spelled
\* exactly (case included), and every rejection is an error value that
\* carries the rejected string.
ParseExactOrErrorWithInput ==
    last[1] = "from_str" =>
        LET T == last[2][1]
            s == last[2][2]
            documented ==
                [Role |-> {"user", "assistant", "system", "developer"},
                 HostedToolType |-> {"file_search", "web_search_preview",
                                     "computer_use_preview"},
                 Truncation |-> {"auto", "disabled"},
                 ImageGenerationBackground |-> {"transparent", "opaque", "auto"},
                 ImageGenerationOutputFormat |-> {"png", "webp", "jpeg"}]
        IN  /\ val[1] # "-" => s \in documented[T]
            /\ val[1] = "-" => (err[1] # "-" /\ err[2] = s)

\* C13: a request setter changes only the field it is named after: that
\* field reflects the argument, every other field keeps its value.
SetterChangesOnlyItsField ==
    [][(last'[1] \in {"OpenAIRequest", "Request"}
        /\ last'[2] \notin {"new", "default"}) =>
          LET field == CASE last'[2] = "add_tool" -> "tools"
                         [] last'[2] = "insert_metadata" -> "metadata"
                         [] OTHER -> last'[2]
              v == last'[3]
          IN  /\ \A g \in DOMAIN val[2] \ {field} : val'[2][g] = val[2][g]
              /\ val'[2][field] # None
              /\ CASE field \in {"tools", "include"} ->
                          val'[2][field][2][Len(val'[2][field][2])] = v
                   [] field = "metadata" -> val'[2].metadata[2][v[1]] = v[2]
                   [] OTHER -> val'[2][field] = Some(v)]_vars

\* C14: for every scalar setter f and values a, b, r.f(a).f(b) = r.f(b) and
\* r.f(a).f(a) = r.f(a); a request just returned by f(v) is what f(v) returns
\* on it again.
ScalarSetterIdempotent ==
    val[1] = "OpenAIRequest" =>
        /\ \A f \in DOMAIN ScalarValues : \A a, b \in ScalarValues[f] :
              /\ OpenAIRequest_set(OpenAIRequest_set(val[2], f, a), f, b)
                     = OpenAIRequest_set(val[2], f, b)
              /\ OpenAIRequest_set(OpenAIRequest_set(val[2], f, a), f, a)
                     = OpenAIRequest_set(val[2], f, a)
        /\ (last[1] = "OpenAIRequest" /\ last[2] \in DOMAIN ScalarValues) =>
              /\ val[2][last[2]] = Some(last[3])
              /\ OpenAIRequest_set(val[2], last[2], last[3]) = val[2]

TemperatureReplaced ==
    /\ last = <<"OpenAIRequest", "temperature", 1>>
    /\ val[2].temperature = Some(1)
    /\ val[2].user # None
    /\ OpenAIRequest_set(OpenAIRequest_set(val[2], "temperature", 0), "temperature", 1)
           = val[2]

\* C15: add_tool appends its argument to the tools list and include to the
\* include list, and no other setter touches either list; so each list is
\* the arguments of its calls, in call order.
AppendInCallOrder ==
    [][(last'[1] = "OpenAIRequest" /\ last'[2] \notin {"new", "default"}) =>
          LET list(r, f) == IF r[f] = None THEN <<>> ELSE r[f][2]
          IN  /\ list(val'[2], "tools") =
                    IF last'[2] = "add_tool"
                    THEN Append(list(val[2], "tools"), last'[3])
                    ELSE list(val[2], "tools")
              /\ list(val'[2], "include") =
                    IF last'[2] = "include"
                    THEN Append(list(val[2], "include"), last'[3])
                    ELSE list(val[2], "include")
              /\ (last'[2] = "add_tool") => val'[2].tools # None
              /\ (last'[2] = "include") => val'[2].include # None]_vars

ToolsInCallOrder ==
    /\ val[1] = "OpenAIRequest"
    /\ val[2].tools =
           Some(<<<<"WebSearch", [variant |-> "Preview", search_context_size |-> None,
                                  user_location |-> None]>>,
                  <<"LocalShell", <<>>>>>>)
    /\ last = <<"OpenAIRequest", "add_tool", <<"LocalShell", <<>>>>>>

\* C16: the document of a request has the keys model and input, has the key
\* of an optional field exactly when the field was set, has the key of the
\* setter called last, and holds no null.
WireOmitsUnsetFields ==
    [][(last'[1] = "to_value" /\ wire'[1] \in {"OpenAIRequest", "Request"}) =>
          LET doc == wire'[2][2]
              field == CASE last[2] = "add_tool" -> "tools"
                         [] last[2] = "insert_metadata" -> "metadata"
                         [] OTHER -> last[2]
          IN  /\ {"model", "input"} \subseteq DOMAIN doc
              /\ \A f \in DOMAIN val[2] \ {"model", "input"} :
                    (f \in DOMAIN doc) <=> (val[2][f] # None)
              /\ \A k \in DOMAIN doc : doc[k] # <<"null">>
              /\ (/\ last[1] \in {"OpenAIRequest", "Request"}
                  /\ last[2] \notin {"new", "default"}) =>
                    field \in DOMAIN doc]_vars

\* C17: an added event is accepted only for an address (item_id,
\* output_index, content_index) not seen before: when a stream receives a
\* second added event for an address it already received one for, the item
\* it yields for the second is a decode error.
DuplicateAddedRejected ==
    val[1] = "Stream" =>
        LET chunks == val[2].chunks
            items == val[2].items
            IsAdded(c) ==
                /\ c[1] = "Ok" /\ c[2][1] = "json"
                /\ "type" \in DOMAIN c[2][2][2]
                /\ c[2][2][2]["type"] = <<"str", "response.content_part.added">>
            Address(c) ==
                LET d == c[2][2][2]
                IN  <<d["item_id"], d["output_index"], d["content_index"]>>
        IN  \A i, j \in 1..Len(chunks) :
                (/\ i < j /\ IsAdded(chunks[i]) /\ IsAdded(chunks[j])
                 /\ Address(chunks[i]) = Address(chunks[j]))
                => items[j][1] = "Err"

UnknownTypeYieldsError ==
    val[1] = "Stream" =>
        LET chunks == val[2].chunks
            items == val[2].items
            names == {StreamingEventT[3][n][2] : n \in 1..Len(StreamingEventT[3])}
            NoEvent(c) ==
                /\ c[1] = "Ok" /\ c[2][1] = "json" /\ c[2][2][1] = "obj"
                /\ \/ "type" \notin DOMAIN c[2][2][2]
                   \/ \A n \in names : c[2][2][2]["type"] # <<"str", n>>
        IN  \A k \in 1..Len(chunks) :
                NoEvent(chunks[k])
                => /\ De(StreamingEventT, chunks[k][2][2])[1] = "Err"
                   /\ k \in DOMAIN items
                   /\ items[k][1] = "Err"
                   /\ items[k][2][1] = "DeserializationError"
                   /\ Len(items) = Len(chunks)

\* a stream that received a document with an unknown type and a document
\* with no type, and yielded an error for each
UnknownAndMissingTypeYielded ==
    /\ val[1] = "Stream"
    /\ \E i, j \in 1..Len(val[2].chunks) :
           /\ val[2].chunks[i][1] = "Ok" /\ val[2].chunks[i][2][1] = "json"
           /\ val[2].chunks[j][1] = "Ok" /\ val[2].chunks[j][2][1] = "json"
           /\ "type" \in DOMAIN val[2].chunks[i][2][2][2]
           /\ val[2].chunks[i][2][2][2]["type"]
                  = <<"str", "response.output_text.finished">>
           /\ "type" \notin DOMAIN val[2].chunks[j][2][2][2]
           /\ i \in DOMAIN val[2].items /\ j \in DOMAIN val[2].items
           /\ val[2].items[i][2][1] = "DeserializationError"
           /\ val[2].items[j][2][1] = "DeserializationError"

\* C20: a stream has yielded exactly one item per chunk received, in the
\* order received: item i is the event decoded from chunk i, a
\* DeserializationError when chunk i does not decode, a NetworkError when
\* chunk i is a transport error; equal chunks yield equal items wherever
\* they stand in the stream.
OneItemPerChunkInOrder ==
    val[1] = "Stream" =>
        LET chunks == val[2].chunks
            items == val[2].items
        IN  /\ Len(items) = Len(chunks)
            /\ \A i \in 1..Len(chunks) :
                   /\ i \in DOMAIN items
                   /\ chunks[i][1] = "Err"
                      => items[i] = Err(<<"NetworkError", chunks[i][2]>>)
                   /\ (chunks[i][1] = "Ok" /\ chunks[i][2][1] = "json")
                      => LET r == De(StreamingEventT, chunks[i][2][2])
                         IN  items[i] = IF r[1] = "Ok" THEN r
                                        ELSE Err(<<"DeserializationError", r[2]>>)
                   /\ (chunks[i][1] = "Ok" /\ chunks[i][2][1] # "json")
                      => items[i][1] = "Err" /\ items[i][2][1] = "DeserializationError"
            /\ \A i, j \in 1..Len(chunks) :
                   (i \in DOMAIN items /\ j \in DOMAIN items /\ chunks[i] = chunks[j])
                   => items[i] = items[j]

\* a stream that received the same delta twice in a row, then a transport
\* error, and yielded the delta twice and the network error
RepeatedChunkAndNetworkError ==
    /\ val[1] = "Stream"
    /\ Len(val[2].chunks) >= 3
    /\ Len(val[2].items) >= 3
    /\ val[2].chunks[1] = val[2].chunks[2]
    /\ val[2].chunks[3][1] = "Err"
    /\ val[2].items[1][1] = "Ok"
    /\ val[2].items[1][2][1] = "OutputTextDelta"
    /\ val[2].items[2] = val[2].items[1]
    /\ val[2].items[3][2][1] = "NetworkError"

\* C21: response.completed, response.failed, response.incomplete and the
\* bare error event end the stream: once the stream has yielded one of
\* them, it yields no event after it.
StreamEndsAtTerminalEvent ==
    val[1] = "Stream" =>
        LET items == val[2].items
        IN  \A i, j \in 1..Len(items) :
                (/\ i < j
                 /\ items[i][1] = "Ok"
                 /\ items[i][2][1] \in {"Completed", "Failed", "Incomplete", "Error"})
                => items[j][1] # "Ok"

\* C22: the document of an Item has the key type, a string that tells its
\* variant: it is the string the variant's constructors write, and no other
\* variant's constructors write it.
ItemCarriesDiscriminant ==
    (wire[1] = "Item" /\ val[1] = "Item") =>
        LET doc == wire[2][2]
            written == [InputMessage |-> {"message"},
                        ComputerToolCallOutput |-> {"computer_call_output"},
                        FunctionToolCallOutput |-> {"function_call_output"}]
            writes(V) == IF V \in DOMAIN written THEN written[V] ELSE {}
            variants == {ItemT[2][n][1] : n \in 1..Len(ItemT[2])}
        IN  /\ wire[2][1] = "obj"
            /\ "type" \in DOMAIN doc
            /\ doc["type"][1] = "str"
            /\ \A V \in variants \ {val[2][1]} : doc["type"][2] \notin writes(V)

\* C23: a document with type web_search_preview or
\* web_search_preview_2025_03_11, decoded to a Tool, converted to
\* WebSearchTool with try_from and back to Tool with from, is encoded with
\* the type it came with.
WebSearchSpellingPreserved ==
    (/\ wire[1] = "Tool"
     /\ wire[2][2]["type"] \in {<<"str", "web_search_preview">>,
                                <<"str", "web_search_preview_2025_03_11">>}
     /\ dec[1] = "Tool") =>
        /\ dec[2][1] = "Ok"
        /\ LET inner == Tool_try_from("WebSearchTool", dec[2][2])
           IN  /\ inner[1] = "Ok"
               /\ Ser(ToolT, Tool_from(<<"WebSearchTool", inner[2]>>))[2]["type"]
                      = wire[2][2]["type"]

\* C24: a Content built with the TextContent, ImageContent or FileContent
\* constructors and setters, encoded and decoded through the untagged
\* Content union, comes back as the same variant with the same fields.
ContentRoundTrip == dec[1] = "Content" => dec[2] = Ok(val[2])

\* an image content with a file_id and no image_url came back as it was
ImageWithFileIdRoundTripped ==
    /\ dec[1] = "Content"
    /\ val[1] = "Content"
    /\ val[2][1] = "Image"
    /\ val[2][2].file_id # None
    /\ val[2][2].image_url = None
    /\ dec[2] = Ok(val[2])

\* C25: every content value is fully formed.  The document of a text, image
\* or file content has type input_text, input_image or input_file; a new
\* image content has detail Auto and only detail() changes it; detail(s)
\* with s not high, low or auto leaves the error FromStr(s) and no value.
ContentFullyFormed ==
    [][/\ val'[1] \in {"TextContent", "ImageContent", "FileContent"} =>
            LET variant == [TextContent |-> "Text", ImageContent |-> "Image",
                            FileContent |-> "File"][val'[1]]
                type == [TextContent |-> "input_text", ImageContent |-> "input_image",
                         FileContent |-> "input_file"][val'[1]]
                doc == Ser(ContentT, <<variant, val'[2]>>)
            IN  /\ "type" \in DOMAIN doc[2]
                /\ doc[2]["type"] = <<"str", type>>
       /\ (val'[1] = "Content" /\ wire'[1] = "Content") =>
            /\ "type" \in DOMAIN wire'[2][2]
            /\ wire'[2][2]["type"] =
                   <<"str", [Text |-> "input_text", Image |-> "input_image",
                             File |-> "input_file"][val'[2][1]]>>
       /\ last' = <<"ImageContent", "new", "-">> =>
            /\ val'[2].detail = "Auto"
            /\ Ser(ContentT, <<"Image", val'[2]>>)[2]["detail"] = <<"str", "auto">>
       /\ (/\ val'[1] = "ImageContent" /\ val[1] = "ImageContent"
           /\ last'[2] \notin {"new", "detail"})
            => val'[2].detail = val[2].detail
       /\ (last'[1] = "ImageContent" /\ last'[2] = "detail") =>
            IF last'[3] \in {"high", "low", "auto"}
            THEN /\ val'[1] = "ImageContent"
                 /\ val'[2] = [val[2] EXCEPT !.detail =
                                  [high |-> "High", low |-> "Low", auto |-> "Auto"][last'[3]]]
                 /\ err' = Nothing
            ELSE /\ val' = Nothing
                 /\ err' = ConversionError_FromStr(last'[3])
      ]_vars

\* a detail("medium") call on an image content failed
DetailRejected ==
    /\ last = <<"ImageContent", "detail", "medium">>
    /\ val = Nothing
    /\ err = ConversionError_FromStr("medium")

\* C26: a request built without an input has the empty message list as its
\* input, and its document has the key input with the empty list as value.
UnspecifiedInputIsEmptyList ==
    [][/\ (last'[1] \in {"OpenAIRequest", "Request"} /\ last'[2] = "default") =>
            /\ val'[2].input = <<"Messages", <<>>>>
            /\ Ser(UnionT[val'[1]], val'[2])[2]["input"] = <<"arr", <<>>>>
       /\ (/\ wire'[1] \in {"OpenAIRequest", "Request"}
           /\ val'[2].input \in {<<"Messages", <<>>>>, <<"Text", "">>}) =>
            /\ "input" \in DOMAIN wire'[2][2]
            /\ wire'[2][2]["input"] = <<"arr", <<>>>>
      ]_vars

\* C27: click(button, x, y) returns the click action with that button and
\* position exactly when button is left, right, wheel, back or forward; for
\* any other button it returns InvalidButtonForClickAction(button) and no
\* action.
ClickContract ==
    last[1] = "ComputerToolAction::click" =>
        LET button == last[2][1]
        IN  IF button \in {"left", "right", "wheel", "back", "forward"}
            THEN /\ val = <<"ComputerToolAction",
                            <<"Click", [button |-> button, x |-> last[2][2],
                                        y |-> last[2][3]]>>>>
                 /\ err = Nothing
            ELSE /\ val = Nothing
                 /\ err = InputError("InvalidButtonForClickAction", button)

\* click("middle", 7, 3) was refused
MiddleClickRejected ==
    /\ last = <<"ComputerToolAction::click", <<"middle", 7, 3>>>>
    /\ val = Nothing
    /\ err = InputError("InvalidButtonForClickAction", "middle")

\* C28: append_content(c) on a multi-content input returns Ok and leaves the
\* input with the same role and its contents followed by c; on a text or
\* single-content input it returns UnableToAppend and leaves the input as
\* it was.
AppendContentContract ==
    [][last'[1] = "Input::append_content" =>
          IF val[2][1] = "MultiContent"
          THEN /\ val'[2][1] = "MultiContent"
               /\ val'[2][2].role = val[2][2].role
               /\ Len(val'[2][2].content) = Len(val[2][2].content) + 1
               /\ \A i \in 1..Len(val[2][2].content) :
                      val'[2][2].content[i] = val[2][2].content[i]
               /\ val'[2][2].content[Len(val'[2][2].content)] = last'[2]
               /\ err' = Nothing
          ELSE /\ val' = val
               /\ err' = <<"ContentError::UnableToAppend">>]_vars

\* an image was appended to a multi-content input that held a text
ImageAppendedAfterText ==
    /\ last[1] = "Input::append_content"
    /\ val[1] = "Input"
    /\ val[2][1] = "MultiContent"
    /\ err = Nothing
    /\ Len(val[2][2].content) = 2
    /\ val[2][2].content[1][1] = "Text"
    /\ val[2][2].content[2] = last[2]
    /\ last[2][1] = "Image"

\* C29: Input::from_item(item) and Input::from_item_reference(reference)
\* return, for every item and every reference, the one message with role
\* user, no content and type "message"; its document is
\* {role: "user", content: [], type: "message"}, with nothing of the item
\* or reference in it.
FromItemIgnoresArgument ==
    /\ last[1] \in {"Input::from_item", "Input::from_item_reference"} =>
          val = <<"RequestInput",
                  <<"Message",
                    <<"InputItemContentList",
                      [role |-> "User", content |-> <<>>,
                       type_field |-> Some("message")]>>>>>>
    /\ wire[1] = "RequestInput" =>
          wire[2] = <<"obj", [role |-> <<"str", "user">>, content |-> <<"arr", <<>>>>,
                              type |-> <<"str", "message">>]>>

\* from_item was given an input message item whose role is not user
FromDeveloperMessageItem ==
    /\ last[1] = "Input::from_item"
    /\ last[2][1] = "InputMessage"
    /\ last[2][2].role # "User"
    /\ val[1] = "RequestInput"
    /\ val[2][2][2].role = "User"

====
